---- MODULE Spec2Model ----
(***************************************************************************)
(* A model of the translation reconciliation code of vite-plugin-shipi18n  *)
(* (src/src/index.js): processRegionalLanguages, applyFallbacks,           *)
(* findMissingKeys, getNestedValue and setNestedValue.                     *)
(*                                                                         *)
(* JavaScript objects are kept on a heap of addressed objects, so that the *)
(* shallow copies the code makes ({ ...x }) share their nested objects     *)
(* with the original, exactly as they do at run time.                      *)
(*                                                                         *)
(* Strings that the code splits or joins are kept as the sequence of their *)
(* pieces: a key or dotted path is the sequence of its '.'-free segments   *)
(* (the key "n.x" is <<"n","x">>, as is the path of key x under key n),    *)
(* a language code is the sequence of its '-'-free parts ("pt-BR" is       *)
(* <<"pt","BR">>), and the text of a string leaf is a sequence of words    *)
(* (the empty string is <<>>).                                             *)
(***************************************************************************)
EXTENDS Naturals, Sequences, FiniteSets, TLC

VARIABLES
  \* applyFallbacks: arguments
  heap,              \* the objects reachable from the arguments
  result,            \* the `result` argument: language code -> value
  attached,          \* result.fallbackInfo: <<>> when the key is not set
  sourceContent,
  targetLanguages,
  fallbackToSource,
  regionalFallback,
  regionalMap,       \* set of <<code, base>> pairs
  \* applyFallbacks: locals and position
  fallbackInfo,
  idx,               \* position of the for-of loop over targetLanguages
  pc,                \* "loop", "return", "done", "threw"
  call,              \* 1: the call on the provider's output, 2: the call on its own output,
                     \* 3: the call on the first call's arguments, the list reversed
  \* history, for stating the properties
  heap0, result0,    \* the arguments as they were when the first call began
  heap1, result1, attached1, \* what the first call returned
  wrote,             \* some value was stored by the current call
  last,              \* what the latest loop iteration did
  \* processRegionalLanguages
  rlInput, rlFlag, rlIdx, processedTargets, rlMap, baseLanguagesAdded, rlPc,
  rlCall,            \* 1: the call on the given list, 2: the call on its own output
  rlFirst,           \* the processedTargets the first call returned
  \* findMissingKeys and setNestedValue called on their own
  dOp,               \* which call: "self", "deleted", "any" (findMissingKeys), "set"
  dSource, dCand,    \* the trees given, as written down
  dKey,              \* "deleted": the leaf key taken out of the copy
  dPath, dValue,     \* "set": the path and the value
  dHeap0, dHeap,     \* the heap holding the arguments: before the call, and now
  dSrc, dObj,        \* the arguments: source; translation or obj
  dMissing,          \* what findMissingKeys returned
  dThrew,            \* setNestedValue raised a TypeError
  dPc,               \* "idle", "call", "done"
  \* buildStart: the cache key of two requests
  kContentA, kTargetsA, kContentB, kTargetsB, \* file content, targetLanguages
  kInputA, kInputB,  \* what each request feeds to the digest
  kPc,               \* "idle", "call", "done"
  \* buildStart: runs over the source files
  bCache,            \* options.cache
  bFts,              \* options.fallback.fallbackToSource
  bRun,              \* which run of buildStart this is
  bFile,             \* position of the for-of loop over sourceFiles
  bPc,               \* "idle", "file", "lookup", "translate", "write", "end", "raised"
  bParsable,         \* per file: JSON.parse accepts its content
  bVersion,          \* per file: which content it has
  bStore,            \* the cache directory: <<file, content>> -> entry
  bTranslations,     \* `translations` of the file in hand, <<>> for null
  bFound,            \* per file, this run: what the cache lookup met
  bOutcome,          \* per file, this run: how the provider call went
  bCalls,            \* per file, this run: calls of translateJSON
  bOut,              \* per file: what the output files hold
  bSeen,             \* this run: the files the loop has taken in hand
  bPrev,             \* per file: the run before failed on the content it has now
  \* buildStart: one source file, from its content to the output files
  uContent,          \* what the file holds, as written down
  uPc,               \* "idle", "parse", "expand", "reconcile", "catch",
                     \* "write", "end"
  uProvider,         \* how translateJSON ended: "none", "ok", "fail"
  uOut               \* the output files written: <<langCode, content>>

applyVars == <<heap, result, attached, sourceContent, targetLanguages,
               fallbackToSource, regionalFallback, regionalMap, fallbackInfo,
               idx, pc, call, heap0, result0, heap1, result1, attached1,
               wrote, last>>
rlVars == <<rlInput, rlFlag, rlIdx, processedTargets, rlMap,
            baseLanguagesAdded, rlPc, rlCall, rlFirst>>
treeVars == <<dOp, dSource, dCand, dKey, dPath, dValue, dHeap0, dHeap, dSrc,
              dObj, dMissing, dThrew, dPc>>
keyVars == <<kContentA, kTargetsA, kContentB, kTargetsB, kInputA, kInputB, kPc>>
buildVars == <<bCache, bFts, bRun, bFile, bPc, bParsable, bVersion, bStore,
               bTranslations, bFound, bOutcome, bCalls, bOut, bSeen, bPrev>>
unitVars == <<uContent, uPc, uProvider, uOut>>
vars == <<applyVars, rlVars, treeVars, keyVars, buildVars, unitVars>>
\* what a step of applyFallbacks, or of processRegionalLanguages, leaves alone
notApplyVars == <<rlVars, treeVars, keyVars, buildVars, unitVars>>
notRlVars == <<applyVars, treeVars, keyVars, buildVars, unitVars>>
notTreeVars == <<applyVars, rlVars, keyVars, buildVars, unitVars>>
notKeyVars == <<applyVars, rlVars, treeVars, buildVars, unitVars>>
notBuildVars == <<applyVars, rlVars, treeVars, keyVars, unitVars>>
notUnitVars == <<treeVars, keyVars, buildVars>>

----------------------------------------------------------------------------
(* Bounds *)

\* longest targetLanguages list given to applyFallbacks
MaxTargets == 2
\* longest targetLanguages list given to processRegionalLanguages
MaxInput == 3

----------------------------------------------------------------------------
(* JavaScript values.  A value is a record [t, v, a]: t its type tag, v the *)
(* words of a string, a the heap address of an object.                      *)

Undefined == [t |-> "undefined", v |-> <<>>, a |-> 0]
Null      == [t |-> "null", v |-> <<>>, a |-> 0]
Str(s)    == [t |-> "string", v |-> s, a |-> 0]
Zero      == [t |-> "number", v |-> <<"0">>, a |-> 0]
False     == [t |-> "boolean", v |-> <<"false">>, a |-> 0]
Ref(a)    == [t |-> "object", v |-> <<>>, a |-> a]
EmptyString == Str(<<>>)

\* typeof x
typeof(x) == IF x.t = "null" THEN "object" ELSE x.t

\* !!x
Truthy(x) ==
  CASE x.t = "undefined" -> FALSE
    [] x.t = "null" -> FALSE
    [] x.t = "string" -> x.v # <<>>
    [] x.t = "number" -> x.v # <<"0">>
    [] x.t = "boolean" -> x.v # <<"false">>
    [] OTHER -> TRUE

\* A heap object: its own enumerable properties in insertion order.
EmptyObject == [isArray |-> FALSE, kv |-> <<>>]

IsObject(x) == x.t = "object"

\* Array.isArray(x)
IsArray(h, x) == IsObject(x) /\ h[x.a].isArray

\* the index keys of a string: "0", "1", ...
IndexKey(j) ==
  <<(<<"0", "1", "2", "3", "4", "5", "6", "7", "8", "9">>)[j]>>

\* Object.keys(x) throws a TypeError
KeysThrow(x) == x.t \in {"null", "undefined"}

\* Object.keys(x): the keys of an object, the indices of a string, nothing
\* for a number or a boolean
ObjectKeys(h, x) ==
  IF IsObject(x) THEN [j \in 1..Len(h[x.a].kv) |-> h[x.a].kv[j].k]
  ELSE IF x.t = "string" THEN [j \in 1..Len(x.v) |-> IndexKey(j)]
  ELSE <<>>

\* key in x, x an object
In(h, key, x) == \E j \in 1..Len(h[x.a].kv) : h[x.a].kv[j].k = key

\* x[key], x an object, a string, a number or a boolean
Get(h, x, key) ==
  IF IsObject(x)
  THEN IF In(h, key, x)
       THEN LET j == CHOOSE j \in 1..Len(h[x.a].kv) : h[x.a].kv[j].k = key
            IN h[x.a].kv[j].val
       ELSE Undefined
  ELSE IF x.t = "string" /\ \E j \in 1..Len(x.v) : IndexKey(j) = key
  THEN Str(<<x.v[CHOOSE j \in 1..Len(x.v) : IndexKey(j) = key]>>)
  ELSE Undefined

\* x[key] = val, x an object: an existing key keeps its place
Put(h, x, key, val) ==
  LET o == h[x.a]
      kv2 == IF In(h, key, x)
             THEN [j \in 1..Len(o.kv) |->
                    IF o.kv[j].k = key THEN [k |-> key, val |-> val] ELSE o.kv[j]]
             ELSE Append(o.kv, [k |-> key, val |-> val])
  IN [h EXCEPT ![x.a] = [o EXCEPT !.kv = kv2]]

\* { ...x }: a new object with x's own properties; nested objects are
\* shared; a string gives its characters, null, a number or a boolean nothing
Spread(h, x) ==
  Append(h, [isArray |-> FALSE,
             kv |-> IF IsObject(x) THEN h[x.a].kv
                    ELSE [j \in 1..Len(ObjectKeys(h, x)) |->
                           [k |-> ObjectKeys(h, x)[j],
                            val |-> Get(h, x, ObjectKeys(h, x)[j])]]])

----------------------------------------------------------------------------
(* Trees written down as values (the content of a JSON file or response),   *)
(* and the heap that holds them.                                            *)

Leaf(x)  == [t |-> x.t, v |-> x.v, isArray |-> FALSE, kv |-> <<>>]
Tree(kv) == [t |-> "object", v |-> <<>>, isArray |-> FALSE, kv |-> kv]
Absent   == Leaf(Undefined)
\* an array with the elements given as <<index, tree>> pairs
ArrayLeaf(kv) == [t |-> "object", v |-> <<>>, isArray |-> TRUE, kv |-> kv]

RECURSIVE Store(_, _)
RECURSIVE StoreProps(_, _, _, _)
\* the heap h with the tree p stored in it, and the value that denotes p
Store(h, p) ==
  IF p.t # "object"
  THEN [h |-> h, val |-> [t |-> p.t, v |-> p.v, a |-> 0]]
  ELSE LET a == Len(h) + 1
           h1 == Append(h, [isArray |-> p.isArray, kv |-> <<>>])
       IN [h |-> StoreProps(h1, a, p.kv, 1), val |-> Ref(a)]
StoreProps(h, a, kv, j) ==
  IF j > Len(kv) THEN h
  ELSE LET s == Store(h, kv[j][2])
       IN StoreProps(Put(s.h, Ref(a), kv[j][1], s.val), a, kv, j + 1)

RECURSIVE Deep(_, _)
\* the content of value x in heap h, whatever the addresses and key order
Deep(h, x) ==
  IF ~IsObject(x)
  THEN [t |-> x.t, v |-> x.v, isArray |-> FALSE, kv |-> {}]
  ELSE [t |-> "object", v |-> <<>>, isArray |-> h[x.a].isArray,
        kv |-> {<<h[x.a].kv[j].k, Deep(h, h[x.a].kv[j].val)>> :
                  j \in 1..Len(h[x.a].kv)}]

----------------------------------------------------------------------------
(* Tree differ and path primitives *)

RECURSIVE findMissingKeys(_, _, _, _)
RECURSIVE findMissingKeysFrom(_, _, _, _, _)
RECURSIVE findMissingKeysFalsy(_, _, _, _, _)
RECURSIVE findMissingKeysFlat(_, _, _, _, _)
RECURSIVE findMissingKeysNullPresent(_, _, _, _, _)
RECURSIVE findMissingKeysLastFirst(_, _, _, _, _)

\* findMissingKeysFrom with every falsy value taken as missing
findMissingKeysFalsy(h, source, translation, prefix, j) ==
  IF j > Len(ObjectKeys(h, source)) THEN <<>>
  ELSE LET key == ObjectKeys(h, source)[j]
           fullKey == IF prefix # <<>> THEN prefix \o key ELSE key
           sourceValue == Get(h, source, key)
           translationValue == Get(h, translation, key)
           here ==
             IF ~Truthy(translationValue)
             THEN <<fullKey>>
             ELSE IF /\ typeof(sourceValue) = "object"
                     /\ sourceValue # Null
                     /\ ~IsArray(h, sourceValue)
                     /\ typeof(translationValue) = "object"
                     /\ translationValue # Null
                  THEN findMissingKeys(h, sourceValue, translationValue, fullKey)
                  ELSE <<>>
       IN here \o findMissingKeysFalsy(h, source, translation, prefix, j + 1)

\* findMissingKeysFrom that never descends into a nested tree
findMissingKeysFlat(h, source, translation, prefix, j) ==
  IF j > Len(ObjectKeys(h, source)) THEN <<>>
  ELSE LET key == ObjectKeys(h, source)[j]
           fullKey == IF prefix # <<>> THEN prefix \o key ELSE key
           translationValue == Get(h, translation, key)
           here ==
             IF translationValue = Undefined \/ translationValue = Null
                \/ translationValue = EmptyString
             THEN <<fullKey>>
             ELSE <<>>
       IN here \o findMissingKeysFlat(h, source, translation, prefix, j + 1)

\* findMissingKeysFrom with null taken as a value that is there
findMissingKeysNullPresent(h, source, translation, prefix, j) ==
  IF j > Len(ObjectKeys(h, source)) THEN <<>>
  ELSE LET key == ObjectKeys(h, source)[j]
           fullKey == IF prefix # <<>> THEN prefix \o key ELSE key
           sourceValue == Get(h, source, key)
           translationValue == Get(h, translation, key)
           here ==
             IF translationValue = Undefined \/ translationValue = EmptyString
             THEN <<fullKey>>
             ELSE IF /\ typeof(sourceValue) = "object"
                     /\ sourceValue # Null
                     /\ ~IsArray(h, sourceValue)
                     /\ typeof(translationValue) = "object"
                     /\ translationValue # Null
                  THEN findMissingKeys(h, sourceValue, translationValue, fullKey)
                  ELSE <<>>
       IN here \o findMissingKeysNullPresent(h, source, translation, prefix, j + 1)

\* findMissingKeysFrom with the paths of a later key put before those of an
\* earlier one
findMissingKeysLastFirst(h, source, translation, prefix, j) ==
  IF j > Len(ObjectKeys(h, source)) THEN <<>>
  ELSE LET key == ObjectKeys(h, source)[j]
           fullKey == IF prefix # <<>> THEN prefix \o key ELSE key
           sourceValue == Get(h, source, key)
           translationValue == Get(h, translation, key)
           here ==
             IF translationValue = Undefined \/ translationValue = Null
                \/ translationValue = EmptyString
             THEN <<fullKey>>
             ELSE IF /\ typeof(sourceValue) = "object"
                     /\ sourceValue # Null
                     /\ ~IsArray(h, sourceValue)
                     /\ typeof(translationValue) = "object"
                     /\ translationValue # Null
                  THEN findMissingKeys(h, sourceValue, translationValue, fullKey)
                  ELSE <<>>
       IN findMissingKeysLastFirst(h, source, translation, prefix, j + 1) \o here

findMissingKeysFrom(h, source, translation, prefix, j) ==
  IF j > Len(ObjectKeys(h, source)) THEN <<>>
  ELSE LET key == ObjectKeys(h, source)[j]
           fullKey == IF prefix # <<>> THEN prefix \o key ELSE key
           sourceValue == Get(h, source, key)
           translationValue == Get(h, translation, key)
           here ==
             IF translationValue = Undefined \/ translationValue = Null
                \/ translationValue = EmptyString
             THEN <<fullKey>>
             ELSE IF /\ typeof(sourceValue) = "object"
                     /\ sourceValue # Null
                     /\ ~IsArray(h, sourceValue)
                     /\ typeof(translationValue) = "object"
                     /\ translationValue # Null
                  THEN findMissingKeys(h, sourceValue, translationValue, fullKey)
                  ELSE <<>>
       IN here \o findMissingKeysFrom(h, source, translation, prefix, j + 1)
\* the missing paths, in the order Object.keys(source) gives
findMissingKeys(h, source, translation, prefix) ==
  findMissingKeysFrom(h, source, translation, prefix, 1)

RECURSIVE getNestedValueFrom(_, _, _, _)
getNestedValueFrom(h, current, keys, j) ==
  IF j > Len(keys) THEN current
  ELSE LET key == <<keys[j]>>
           next == IF Truthy(current) /\ typeof(current) = "object"
                      /\ In(h, key, current)
                   THEN Get(h, current, key)
                   ELSE Undefined
       IN getNestedValueFrom(h, next, keys, j + 1)
\* path.split('.').reduce(...)
getNestedValue(h, obj, path) == getNestedValueFrom(h, obj, path, 1)

RECURSIVE setNestedValueFrom(_, _, _, _, _)
setNestedValueFrom(h, current, keys, i, value) ==
  IF current = Null
  THEN [h |-> h, threw |-> TRUE]     \* TypeError: `in` or assignment on null
  ELSE IF i > Len(keys) - 1
  THEN [h |-> Put(h, current, <<keys[Len(keys)]>>, value), threw |-> FALSE]
  ELSE LET key == <<keys[i]>>
       IN IF ~In(h, key, current) \/ typeof(Get(h, current, key)) # "object"
          THEN LET a == Len(h) + 1
                   h1 == Put(Append(h, EmptyObject), current, key, Ref(a))
               IN setNestedValueFrom(h1, Ref(a), keys, i + 1, value)
          ELSE setNestedValueFrom(h, Get(h, current, key), keys, i + 1, value)
\* the heap after setNestedValue(obj, path, value), or that it threw
setNestedValue(h, obj, path, value) == setNestedValueFrom(h, obj, path, 1, value)

----------------------------------------------------------------------------
(* Small maps kept as sets of <<key, value>> pairs *)

MapHas(m, k) == \E e \in m : e[1] = k
MapGet(m, k) == (CHOOSE e \in m : e[1] = k)[2]
MapPut(m, k, x) == {e \in m : e[1] # k} \cup {<<k, x>>}

----------------------------------------------------------------------------
(* The inputs the model runs applyFallbacks on *)

PT   == <<"pt">>
PTBR == <<"pt", "BR">>
Langs == {PT, PTBR}

G == <<"g">>
F == <<"f">>
N == <<"n">>
X == <<"x">>
Y == <<"y">>
NX == <<"n", "x">>     \* the single key "n.x"

Text(w) == Leaf(Str(<<w>>))
\* the text a provider returns for source key k in language l
Tr(l, k) == Leaf(Str(l \o k))

SrcEmpty  == Tree(<<>>)
SrcFlat   == Tree(<< <<G, Text("Hello")>>, <<F, Text("Goodbye")>> >>)
SrcNested == Tree(<< <<G, Text("Hello")>>,
                     <<N, Tree(<< <<X, Text("Ex")>>, <<Y, Text("Why")>> >>)>> >>)
SrcBlank  == Tree(<< <<G, Text("Hello")>>, <<F, Leaf(EmptyString)>> >>)
SrcDotted == Tree(<< <<G, Text("Hello")>>, <<NX, Text("Flat")>> >>)
Sources == {SrcEmpty, SrcFlat, SrcNested, SrcBlank, SrcDotted}

OnlyG(l) == Tree(<< <<G, Tr(l, G)>> >>)
\* what a provider may return for language l, given the source: nothing, an
\* empty tree, a full translation, or translations with gaps
Candidates(src, l) ==
  {Absent, Tree(<<>>), OnlyG(l)} \cup
  CASE src = SrcFlat ->
         {Tree(<< <<G, Tr(l, G)>>, <<F, Tr(l, F)>> >>),
          Tree(<< <<G, Tr(l, G)>>, <<F, Leaf(EmptyString)>> >>)}
    [] src = SrcNested ->
         {Tree(<< <<G, Tr(l, G)>>,
                  <<N, Tree(<< <<X, Tr(l, X)>>, <<Y, Tr(l, Y)>> >>)>> >>),
          Tree(<< <<G, Tr(l, G)>>, <<N, Tree(<< <<X, Tr(l, X)>> >>)>> >>),
          Tree(<< <<G, Tr(l, G)>>, <<N, Leaf(Null)>> >>)}
    [] src = SrcBlank ->
         {Tree(<< <<G, Tr(l, G)>>, <<F, Tr(l, F)>> >>)}
    [] src = SrcDotted ->
         {Tree(<< <<G, Tr(l, G)>>, <<NX, Tr(l, NX)>> >>),
          Tree(<< <<G, Tr(l, G)>>, <<N, Tree(<< <<X, Tr(l, X)>> >>)>> >>),
          Tree(<< <<G, Tr(l, G)>>, <<N, Leaf(Null)>> >>)}
    [] OTHER -> {}

TargetLists == UNION {[1..n -> Langs] : n \in 1..MaxTargets}

\* lang.includes('-')
IsRegional(lang) == Len(lang) > 1
\* lang.split('-')[0]
BaseOf(lang) == <<lang[1]>>

\* the regional maps applyFallbacks is given: any part of what
\* processRegionalLanguages records for these codes
RegionalMaps == SUBSET {<<l, BaseOf(l)>> : l \in {c \in Langs : IsRegional(c)}}

NoFallbackInfo ==
  [used |-> FALSE, languagesFallbackToSource |-> <<>>,
   regionalFallbacks |-> {}, keysFallback |-> {}]

NoStep == [kind |-> "none", lang |-> <<>>, missing |-> <<>>, threw |-> FALSE]

----------------------------------------------------------------------------
(* applyFallbacks(result, sourceContent, targetLanguages, sourceLanguage,   *)
(*                fallbackToSource, regionalFallback, regionalMap)          *)

\* result[lang]
Lookup(res, lang) == IF lang \in DOMAIN res THEN res[lang] ELSE Undefined

\* !translation || Object.keys(translation).length === 0
WholeMissing(h, translation) ==
  IF Truthy(translation) THEN Len(ObjectKeys(h, translation)) = 0 ELSE TRUE

\* regionalFallback && regionalMap[lang]
HasBase(lang) == regionalFallback /\ MapHas(regionalMap, lang)

\* baseTranslation && Object.keys(baseTranslation).length > 0
BaseUsable(h, res, lang) ==
  LET baseTranslation == Lookup(res, MapGet(regionalMap, lang))
  IN Truthy(baseTranslation) /\ Len(ObjectKeys(h, baseTranslation)) > 0

\* FallbackValueFor with the source's value taken before the base's
FallbackValueSourceFirst(h, res, lang, key) ==
  LET fallbackValue == getNestedValue(h, sourceContent, key)
      baseTranslation == Lookup(res, MapGet(regionalMap, lang))
      baseValue == IF HasBase(lang) /\ Truthy(baseTranslation)
                   THEN getNestedValue(h, baseTranslation, key)
                   ELSE Undefined
  IN IF fallbackValue # Undefined THEN fallbackValue ELSE baseValue

\* the value the inner loop stores for a missing key, Undefined for none
FallbackValueFor(h, res, lang, key) ==
  LET fallbackValue == getNestedValue(h, sourceContent, key)
      baseTranslation == Lookup(res, MapGet(regionalMap, lang))
      baseValue == IF HasBase(lang) /\ Truthy(baseTranslation)
                   THEN getNestedValue(h, baseTranslation, key)
                   ELSE Undefined
  IN IF baseValue # Undefined THEN baseValue ELSE fallbackValue

RECURSIVE FillMissing(_, _, _, _, _, _)
\* for (const key of missingKeys) { ... }, from the j-th key on
FillMissing(h, res, lang, missingKeys, j, w) ==
  IF j > Len(missingKeys) THEN [h |-> h, threw |-> FALSE, wrote |-> w]
  ELSE LET value == FallbackValueFor(h, res, lang, missingKeys[j])
       IN IF value = Undefined
          THEN FillMissing(h, res, lang, missingKeys, j + 1, w)
          ELSE LET s == setNestedValue(h, res[lang], missingKeys[j], value)
               IN IF s.threw THEN [h |-> s.h, threw |-> TRUE, wrote |-> w]
                  ELSE FillMissing(s.h, res, lang, missingKeys, j + 1, TRUE)

Inputs == <<sourceContent, targetLanguages, fallbackToSource, regionalFallback,
            regionalMap, heap0, result0>>
FirstCall == <<heap1, result1, attached1>>

InLoop == pc = "loop" /\ idx <= Len(targetLanguages)
Lang == targetLanguages[idx]

\* WholeRegional that goes on to the source fallback after copying the base
WholeRegionalFallsThrough ==
  /\ InLoop
  /\ WholeMissing(heap, result[Lang])
  /\ HasBase(Lang) /\ BaseUsable(heap, result, Lang)
  /\ LET baseLang == MapGet(regionalMap, Lang)
         copy == IF fallbackToSource THEN sourceContent ELSE result[baseLang]
     IN /\ heap' = Spread(heap, copy)
        /\ result' = [result EXCEPT ![Lang] = Ref(Len(heap) + 1)]
        /\ fallbackInfo' =
             [fallbackInfo EXCEPT
                !.used = TRUE,
                !.regionalFallbacks = MapPut(@, Lang, baseLang),
                !.languagesFallbackToSource =
                   IF fallbackToSource THEN Append(@, Lang) ELSE @]
  /\ wrote' = TRUE
  /\ last' = [kind |-> "regional", lang |-> Lang, missing |-> <<>>, threw |-> FALSE]
  /\ idx' = idx + 1
  /\ UNCHANGED <<attached, pc, call, Inputs, FirstCall, notApplyVars>>

\* Case 1, regional: result[lang] = { ...baseTranslation }
WholeRegional ==
  /\ InLoop
  /\ WholeMissing(heap, result[Lang])
  /\ HasBase(Lang) /\ BaseUsable(heap, result, Lang)
  /\ LET baseLang == MapGet(regionalMap, Lang)
     IN /\ heap' = Spread(heap, result[baseLang])
        /\ result' = [result EXCEPT ![Lang] = Ref(Len(heap) + 1)]
        /\ fallbackInfo' =
             [fallbackInfo EXCEPT
                !.used = TRUE,
                !.regionalFallbacks = MapPut(@, Lang, baseLang)]
  /\ wrote' = TRUE
  /\ last' = [kind |-> "regional", lang |-> Lang, missing |-> <<>>, threw |-> FALSE]
  /\ idx' = idx + 1
  /\ UNCHANGED <<attached, pc, call, Inputs, FirstCall, notApplyVars>>

\* WholeSource that does not note the language in languagesFallbackToSource
WholeSourceUnrecorded ==
  /\ InLoop
  /\ WholeMissing(heap, result[Lang])
  /\ ~(HasBase(Lang) /\ BaseUsable(heap, result, Lang))
  /\ fallbackToSource
  /\ heap' = Spread(heap, sourceContent)
  /\ result' = [result EXCEPT ![Lang] = Ref(Len(heap) + 1)]
  /\ fallbackInfo' = [fallbackInfo EXCEPT !.used = TRUE]
  /\ wrote' = TRUE
  /\ last' = [kind |-> "source", lang |-> Lang, missing |-> <<>>, threw |-> FALSE]
  /\ idx' = idx + 1
  /\ UNCHANGED <<attached, pc, call, Inputs, FirstCall, notApplyVars>>

\* WholeSource with the fallback applied only to a language that is not there
\* at all: an empty tree is passed over
WholeSourceOnlyIfAbsent ==
  /\ InLoop
  /\ WholeMissing(heap, result[Lang])
  /\ ~(HasBase(Lang) /\ BaseUsable(heap, result, Lang))
  /\ fallbackToSource
  /\ heap' = Spread(heap, sourceContent)
  /\ result' = IF Truthy(result[Lang]) THEN result
               ELSE [result EXCEPT ![Lang] = Ref(Len(heap) + 1)]
  /\ fallbackInfo' =
       [fallbackInfo EXCEPT
          !.used = TRUE,
          !.languagesFallbackToSource = Append(@, Lang)]
  /\ wrote' = TRUE
  /\ last' = [kind |-> "source", lang |-> Lang, missing |-> <<>>, threw |-> FALSE]
  /\ idx' = idx + 1
  /\ UNCHANGED <<attached, pc, call, Inputs, FirstCall, notApplyVars>>

\* Case 1, source: result[lang] = { ...sourceContent }
WholeSource ==
  /\ InLoop
  /\ WholeMissing(heap, result[Lang])
  /\ ~(HasBase(Lang) /\ BaseUsable(heap, result, Lang))
  /\ fallbackToSource
  /\ heap' = Spread(heap, sourceContent)
  /\ result' = [result EXCEPT ![Lang] = Ref(Len(heap) + 1)]
  /\ fallbackInfo' =
       [fallbackInfo EXCEPT
          !.used = TRUE,
          !.languagesFallbackToSource = Append(@, Lang)]
  /\ wrote' = TRUE
  /\ last' = [kind |-> "source", lang |-> Lang, missing |-> <<>>, threw |-> FALSE]
  /\ idx' = idx + 1
  /\ UNCHANGED <<attached, pc, call, Inputs, FirstCall, notApplyVars>>

\* WholeNone with the language's entry reset to a new empty tree
WholeNoneResets ==
  /\ InLoop
  /\ WholeMissing(heap, result[Lang])
  /\ ~(HasBase(Lang) /\ BaseUsable(heap, result, Lang))
  /\ ~fallbackToSource
  /\ heap' = Append(heap, EmptyObject)
  /\ result' = [result EXCEPT ![Lang] = Ref(Len(heap) + 1)]
  /\ last' = [kind |-> "left", lang |-> Lang, missing |-> <<>>, threw |-> FALSE]
  /\ idx' = idx + 1
  /\ UNCHANGED <<fallbackInfo, wrote, attached, pc, call,
                 Inputs, FirstCall, notApplyVars>>

\* Case 1, neither fallback: continue
WholeNone ==
  /\ InLoop
  /\ WholeMissing(heap, result[Lang])
  /\ ~(HasBase(Lang) /\ BaseUsable(heap, result, Lang))
  /\ ~fallbackToSource
  /\ last' = [kind |-> "left", lang |-> Lang, missing |-> <<>>, threw |-> FALSE]
  /\ idx' = idx + 1
  /\ UNCHANGED <<heap, result, fallbackInfo, wrote, attached, pc, call,
                 Inputs, FirstCall, notApplyVars>>

\* PartialKeys with `used` set as soon as case 2 is entered
PartialKeysAlwaysUsed ==
  /\ InLoop
  /\ ~WholeMissing(heap, result[Lang])
  /\ fallbackToSource /\ typeof(result[Lang]) = "object"
  /\ LET missingKeys ==
           IF KeysThrow(sourceContent) THEN <<>>
           ELSE findMissingKeys(heap, sourceContent, result[Lang], <<>>)
         s == IF KeysThrow(sourceContent)
              THEN [h |-> heap, threw |-> TRUE, wrote |-> wrote]
              ELSE FillMissing(heap, result, Lang, missingKeys, 1, wrote)
     IN /\ heap' = s.h
        /\ wrote' = s.wrote
        /\ fallbackInfo' =
             IF Len(missingKeys) > 0
             THEN [fallbackInfo EXCEPT
                     !.used = TRUE,
                     !.keysFallback = MapPut(@, Lang, missingKeys)]
             ELSE [fallbackInfo EXCEPT !.used = TRUE]
        /\ last' = [kind |-> "keys", lang |-> Lang, missing |-> missingKeys,
                    threw |-> s.threw]
        /\ pc' = IF s.threw THEN "threw" ELSE pc
        /\ idx' = IF s.threw THEN idx ELSE idx + 1
  /\ UNCHANGED <<result, attached, call, Inputs, FirstCall, notApplyVars>>

\* Case 2: fill the missing keys of a translation that is there (a source
\* that is null makes Object.keys, line 351, throw)
PartialKeys ==
  /\ InLoop
  /\ ~WholeMissing(heap, result[Lang])
  /\ fallbackToSource /\ typeof(result[Lang]) = "object"
  /\ LET missingKeys ==
           IF KeysThrow(sourceContent) THEN <<>>
           ELSE findMissingKeys(heap, sourceContent, result[Lang], <<>>)
         s == IF KeysThrow(sourceContent)
              THEN [h |-> heap, threw |-> TRUE, wrote |-> wrote]
              ELSE FillMissing(heap, result, Lang, missingKeys, 1, wrote)
     IN /\ heap' = s.h
        /\ wrote' = s.wrote
        /\ fallbackInfo' =
             IF Len(missingKeys) > 0
             THEN [fallbackInfo EXCEPT
                     !.used = TRUE,
                     !.keysFallback = MapPut(@, Lang, missingKeys)]
             ELSE fallbackInfo
        /\ last' = [kind |-> "keys", lang |-> Lang, missing |-> missingKeys,
                    threw |-> s.threw]
        /\ pc' = IF s.threw THEN "threw" ELSE pc
        /\ idx' = IF s.threw THEN idx ELSE idx + 1
  /\ UNCHANGED <<result, attached, call, Inputs, FirstCall, notApplyVars>>

\* Case 2 not entered: fallbackToSource is off
PartialSkip ==
  /\ InLoop
  /\ ~WholeMissing(heap, result[Lang])
  /\ ~(fallbackToSource /\ typeof(result[Lang]) = "object")
  /\ last' = [kind |-> "skip", lang |-> Lang, missing |-> <<>>, threw |-> FALSE]
  /\ idx' = idx + 1
  /\ UNCHANGED <<heap, result, fallbackInfo, wrote, attached, pc, call,
                 Inputs, FirstCall, notApplyVars>>

\* if (fallbackInfo.used) result.fallbackInfo = fallbackInfo;  return result
Return ==
  /\ pc = "loop" /\ idx > Len(targetLanguages)
  /\ attached' = IF fallbackInfo.used THEN <<fallbackInfo>> ELSE attached
  /\ pc' = "done"
  /\ UNCHANGED <<heap, result, fallbackInfo, idx, wrote, last, call, Inputs,
                 FirstCall, notApplyVars>>

\* applyFallbacks again, on what it returned, with the same other arguments
CallAgain ==
  /\ pc = "done" /\ call = 1
  /\ heap1' = heap /\ result1' = result /\ attached1' = attached
  /\ fallbackInfo' = NoFallbackInfo
  /\ idx' = 1
  /\ pc' = "loop"
  /\ call' = 2
  /\ wrote' = FALSE
  /\ last' = NoStep
  /\ UNCHANGED <<heap, result, attached, Inputs, notApplyVars>>

UnitIdle ==
  /\ uContent = <<>> /\ uPc = "idle" /\ uProvider = "none" /\ uOut = {}

TreeIdle ==
  /\ dOp = "none" /\ dSource = Absent /\ dCand = Absent /\ dKey = <<>>
  /\ dPath = <<>> /\ dValue = Undefined /\ dHeap0 = <<>> /\ dHeap = <<>>
  /\ dSrc = Undefined /\ dObj = Undefined /\ dMissing = <<>>
  /\ dThrew = FALSE /\ dPc = "idle"

BuildIdle ==
  /\ bCache = FALSE /\ bFts = FALSE /\ bRun = 1 /\ bFile = 1 /\ bPc = "idle"
  /\ bParsable = <<>> /\ bVersion = <<>> /\ bStore = <<>>
  /\ bTranslations = <<>> /\ bFound = <<>> /\ bOutcome = <<>>
  /\ bCalls = <<>> /\ bOut = <<>> /\ bSeen = {} /\ bPrev = <<>>

KeyIdle ==
  /\ kContentA = <<>> /\ kTargetsA = <<>> /\ kContentB = <<>> /\ kTargetsB = <<>>
  /\ kInputA = <<>> /\ kInputB = <<>> /\ kPc = "idle"

RlIdle ==
  /\ rlInput = <<>> /\ rlFlag = FALSE /\ rlIdx = 1 /\ processedTargets = <<>>
  /\ rlMap = {} /\ baseLanguagesAdded = {} /\ rlPc = "idle"
  /\ rlCall = 1 /\ rlFirst = <<>>

Init ==
  /\ \E src \in Sources, tl \in TargetLists, rm \in RegionalMaps,
        fts \in BOOLEAN, rfb \in BOOLEAN :
       \E rpt \in Candidates(src, PT), rbr \in Candidates(src, PTBR) :
         LET s0 == Store(<<>>, src)
             s1 == Store(s0.h, rpt)
             s2 == Store(s1.h, rbr)
             res == [l \in Langs |-> IF l = PT THEN s1.val ELSE s2.val]
         IN /\ heap = s2.h /\ heap0 = s2.h
            /\ result = res /\ result0 = res
            /\ sourceContent = s0.val
            /\ targetLanguages = tl
            /\ fallbackToSource = fts
            /\ regionalFallback = rfb
            /\ regionalMap = rm
  /\ attached = <<>>
  /\ fallbackInfo = NoFallbackInfo
  /\ idx = 1 /\ pc = "loop" /\ call = 1
  /\ heap1 = <<>> /\ result1 = [l \in Langs |-> Undefined] /\ attached1 = <<>>
  /\ wrote = FALSE /\ last = NoStep
  /\ RlIdle
  /\ TreeIdle
  /\ KeyIdle
  /\ BuildIdle
  /\ UnitIdle

Next ==
  \/ WholeRegional
  \/ WholeSource
  \/ WholeNone
  \/ PartialKeys
  \/ PartialSkip
  \/ Return
  \/ CallAgain

Spec == Init /\ [][Next]_vars

----------------------------------------------------------------------------
(* Vocabulary of the properties *)

\* the first call has returned
Returned == pc = "done" /\ call = 1
\* the call on the first call's output has returned
ReturnedAgain == pc = "done" /\ call = 2

InTargets(l) == \E i \in 1..Len(targetLanguages) : targetLanguages[i] = l
Targets == {l \in Langs : InTargets(l)}
InSeq(x, seq) == \E i \in 1..Len(seq) : seq[i] = x

\* the content of a language's tree: as passed in, and now
Raw(l) == Deep(heap0, result0[l])
Now(l) == Deep(heap, result[l])
Source == Deep(heap0, sourceContent)

\* raw[l] is absent or an empty tree, in the arguments as passed
RawMissing(l) == WholeMissing(heap0, result0[l])
\* regional fallback applies to l, judged on the arguments as passed
RawRegional(l) ==
  /\ regionalFallback /\ MapHas(regionalMap, l)
  /\ ~WholeMissing(heap0, Lookup(result0, MapGet(regionalMap, l)))

\* findMissingKeys(source, tree of l) is empty
Complete(h, res, l) ==
  IsObject(res[l]) /\ findMissingKeys(h, sourceContent, res[l], <<>>) = <<>>

RECURSIVE KeyPaths(_, _)
\* the nodes of a tree, each as the sequence of keys that leads to it
KeyPaths(h, x) ==
  IF ~IsObject(x) THEN {<<>>}
  ELSE {<<>>} \cup
       UNION {{<<h[x.a].kv[j].k>> \o q : q \in KeyPaths(h, h[x.a].kv[j].val)} :
                j \in 1..Len(h[x.a].kv)}

\* the source has a text for every key, and no key holds a '.'
PlainSource ==
  /\ findMissingKeys(heap0, sourceContent, sourceContent, <<>>) = <<>>
  /\ \A ks \in KeyPaths(heap0, sourceContent) :
       \A i \in 1..Len(ks) : Len(ks[i]) = 1

----------------------------------------------------------------------------
(* C1: with fallbackToSource enabled, after applyFallbacks returns every   *)
(* language of targetLanguages has a value for every key of the source:    *)
(* findMissingKeys(source, result[L]) is empty.  Stated here for sources   *)
(* that themselves have a non-empty text for every key and no dotted key.  *)
C1_EveryTargetComplete ==
  (Returned /\ fallbackToSource /\ PlainSource) =>
    \A l \in Targets : Complete(heap, result, l)

(* C2, as claimed: with both flags on and an empty regionalMap, every      *)
(* language of targetLanguages ends up present with at least one key, for  *)
(* every source tree, the empty tree included.                             *)
C2_TotalForEverySource ==
  (Returned /\ fallbackToSource /\ regionalFallback /\ regionalMap = {}) =>
    \A l \in Targets :
      IsObject(result[l]) /\ Len(ObjectKeys(heap, result[l])) > 0

(* C2, amended: the same for every source tree that has at least one key.  *)
C2_TotalForNonEmptySource ==
  (/\ Returned /\ fallbackToSource /\ regionalFallback /\ regionalMap = {}
   /\ Len(ObjectKeys(heap0, sourceContent)) > 0) =>
    \A l \in Targets :
      IsObject(result[l]) /\ Len(ObjectKeys(heap, result[l])) > 0

C2_Witness ==
  /\ Returned /\ fallbackToSource /\ regionalFallback /\ regionalMap = {}
  /\ Len(ObjectKeys(heap0, sourceContent)) > 0
  /\ \E l \in Targets : result0[l] = Undefined
  /\ \E l \in Targets : IsObject(result0[l]) /\ RawMissing(l)

(* C3, as claimed: a language whose raw entry is absent or an empty tree,  *)
(* with no regional fallback applicable and fallbackToSource off, is       *)
(* absent from the returned set, in the absent and in the empty-tree case. *)
C3_LeftAbsent ==
  (Returned /\ ~fallbackToSource) =>
    \A l \in Targets :
      (RawMissing(l) /\ ~RawRegional(l)) => result[l] = Undefined

(* C3, amended: such a language is left as it was passed in: absent when   *)
(* raw[L] was absent, and still the same empty tree when raw[L] was one.   *)
C3_LeftAsPassed ==
  (Returned /\ ~fallbackToSource) =>
    \A l \in Targets :
      (RawMissing(l) /\ ~RawRegional(l)) =>
        /\ result[l] = result0[l]
        /\ Now(l) = Raw(l)
        /\ (result0[l] = Undefined => result[l] = Undefined)

C3_Witness ==
  /\ Returned /\ ~fallbackToSource
  /\ \E l \in Targets :
       RawMissing(l) /\ ~RawRegional(l) /\ result0[l] = Undefined
  /\ \E l \in Targets :
       /\ RawMissing(l) /\ ~RawRegional(l) /\ IsObject(result0[l])
       /\ IsObject(result[l]) /\ Len(ObjectKeys(heap, result[l])) = 0

\* regional fallback applies to l, as the loop finds the set when it reaches l
RegionalApplies(h, res, l) ==
  /\ regionalFallback /\ MapHas(regionalMap, l)
  /\ ~WholeMissing(h, Lookup(res, MapGet(regionalMap, l)))

\* the top-level keys of a tree with their values
Entries(h, x) == {h[x.a].kv[j] : j \in 1..Len(h[x.a].kv)}

(* C4: when the loop reaches a language L whose entry is absent or empty,  *)
(* regionalFallback is on, regionalMap[L] = B and the entry of B is        *)
(* present and non-empty, then result[L] gets exactly the top-level keys   *)
(* and values of B's tree, regionalFallbacks[L] = B is recorded and L is   *)
(* not put in languagesFallbackToSource, whatever fallbackToSource is.     *)
C4_RegionalCopy ==
  [][(InLoop /\ WholeMissing(heap, result[Lang])
      /\ RegionalApplies(heap, result, Lang)) =>
       LET B == MapGet(regionalMap, Lang)
       IN /\ IsObject(result'[Lang])
          /\ Entries(heap', result'[Lang]) = Entries(heap, result[B])
          /\ Deep(heap', result'[Lang]) = Deep(heap, result[B])
          /\ fallbackInfo'.used
          /\ <<Lang, B>> \in fallbackInfo'.regionalFallbacks
          /\ ~InSeq(Lang, fallbackInfo'.languagesFallbackToSource)]_vars

\* a language passed in absent was filled from a base that lacks source
\* keys, with fallbackToSource on, and the call returned it that way
C4_Witness ==
  /\ Returned /\ fallbackToSource
  /\ last.kind = "regional" /\ result0[last.lang] = Undefined
  /\ Now(last.lang) = Raw(MapGet(regionalMap, last.lang))
  /\ ~Complete(heap, result, last.lang)
  /\ attached # <<>>
  /\ ~InSeq(last.lang, attached[1].languagesFallbackToSource)

(* C5: when the loop reaches a language L whose entry is absent or an      *)
(* empty tree, regional fallback does not apply and fallbackToSource is    *)
(* on, then result[L] gets the keys and values of the source and L is put  *)
(* in languagesFallbackToSource.                                           *)
C5_SourceCopy ==
  [][(InLoop /\ WholeMissing(heap, result[Lang])
      /\ ~RegionalApplies(heap, result, Lang) /\ fallbackToSource) =>
       /\ IsObject(result'[Lang])
       /\ Entries(heap', result'[Lang]) = Entries(heap, sourceContent)
       /\ Deep(heap', result'[Lang]) = Deep(heap, sourceContent)
       /\ fallbackInfo'.used
       /\ InSeq(Lang, fallbackInfo'.languagesFallbackToSource)]_vars

\* an empty tree was replaced by the source although a regional base is
\* mapped (the base has nothing to give), and the call returned it that way
C5_Witness ==
  /\ Returned /\ last.kind = "source"
  /\ IsObject(result0[last.lang]) /\ RawMissing(last.lang)
  /\ regionalFallback /\ MapHas(regionalMap, last.lang)
  /\ Now(last.lang) = Source
  /\ Len(ObjectKeys(heap0, sourceContent)) > 0
  /\ attached # <<>>
  /\ InSeq(last.lang, attached[1].languagesFallbackToSource)

\* p is a prefix of q
IsPrefix(p, q) == Len(p) <= Len(q) /\ SubSeq(q, 1, Len(p)) = p

RECURSIVE Dotted(_)
\* the dotted path of a node: its keys joined by '.'
Dotted(ks) == IF ks = <<>> THEN <<>> ELSE Head(ks) \o Dotted(Tail(ks))

RECURSIVE ValueAt(_, _, _)
\* the node of tree x that the keys ks lead to
ValueAt(h, x, ks) ==
  IF ks = <<>> THEN x
  ELSE IF IsObject(x) /\ In(h, Head(ks), x)
       THEN ValueAt(h, Get(h, x, Head(ks)), Tail(ks))
       ELSE Undefined

C7_AttachedIffStored ==
  Returned =>
    /\ (attached # <<>>) <=> wrote
    /\ attached # <<>> => attached[1].used

(* C8, as claimed: when every language of targetLanguages has in raw a     *)
(* tree with no missing key relative to the source, the call returns raw   *)
(* with every tree unchanged and attaches no fallbackInfo, whatever the    *)
(* two flags are.                                                          *)
C8_NoOp ==
  (Returned /\ \A l \in Targets : Complete(heap0, result0, l)) =>
    /\ \A l \in Langs : result[l] = result0[l] /\ Now(l) = Raw(l)
    /\ attached = <<>>

(* C8, amended: the same when each of those trees has at least one key.    *)
C8_NoOpNonEmpty ==
  (Returned /\ \A l \in Targets :
      Complete(heap0, result0, l) /\ ~RawMissing(l)) =>
    /\ \A l \in Langs : result[l] = result0[l] /\ Now(l) = Raw(l)
    /\ attached = <<>>

\* both flags on, a regional base mapped, two complete trees of a source
\* with nested keys
C8_Witness ==
  /\ Returned /\ fallbackToSource /\ regionalFallback
  /\ Cardinality(Targets) = 2
  /\ \A l \in Targets : Complete(heap0, result0, l) /\ ~RawMissing(l)
  /\ \E l \in Targets : MapHas(regionalMap, l)
  /\ \E ks \in KeyPaths(heap0, sourceContent) : Len(ks) = 2
  /\ attached = <<>>

(* C9: applying applyFallbacks to its own output, with the same other      *)
(* arguments, returns a set equal to that output.  Stated here for the     *)
(* per-language trees (the claim adds fallbackInfo).                       *)
C9_SecondCallKeepsTrees ==
  ReturnedAgain => \A l \in Langs : Now(l) = Deep(heap1, result1[l])

(* C29: applyFallbacks changes neither the source tree nor the raw entry   *)
(* of a language that is not in targetLanguages: when the call returns,    *)
(* both hold, at every depth, what they held when the call began.          *)
C29_DonorsUnchanged ==
  Returned =>
    /\ Deep(heap, sourceContent) = Source
    /\ \A l \in Langs \ Targets : result[l] = result0[l] /\ Now(l) = Raw(l)

----------------------------------------------------------------------------
(* applyFallbacks called a second time on the arguments of the first call, *)
(* with targetLanguages in the opposite order                              *)

RECURSIVE Reverse(_)
Reverse(seq) ==
  IF seq = <<>> THEN <<>> ELSE Append(Reverse(Tail(seq)), Head(seq))

\* applyFallbacks on the raw set and the source as they were passed to the
\* first call, with the same flags and regionalMap and the list reversed
CallReversed ==
  /\ pc = "done" /\ call = 1
  /\ heap1' = heap /\ result1' = result /\ attached1' = attached
  /\ heap' = heap0 /\ result' = result0 /\ attached' = <<>>
  /\ targetLanguages' = Reverse(targetLanguages)
  /\ fallbackInfo' = NoFallbackInfo
  /\ idx' = 1
  /\ pc' = "loop"
  /\ call' = 3
  /\ wrote' = FALSE
  /\ last' = NoStep
  /\ UNCHANGED <<sourceContent, fallbackToSource, regionalFallback,
                 regionalMap, heap0, result0, notApplyVars>>

OrderNext ==
  \/ WholeRegional
  \/ WholeSource
  \/ WholeNone
  \/ PartialKeys
  \/ PartialSkip
  \/ Return
  \/ CallReversed

SpecOrder == Init /\ [][OrderNext]_vars

\* the call on the reversed list has returned
ReturnedReversed == pc = "done" /\ call = 3

(* C28: the tree of each requested language does not depend on the order   *)
(* of targetLanguages: for a list without repeated codes, applyFallbacks   *)
(* on the same raw set, source, flags and regionalMap with the list in the *)
(* opposite order returns, for every language of the list, a tree equal to *)
(* the one the first call returned.                                        *)
C28_OrderIndependent ==
  (ReturnedReversed /\ Cardinality(Targets) = Len(targetLanguages)) =>
    \A l \in Targets : Now(l) = Deep(heap1, result1[l])

----------------------------------------------------------------------------
(* processRegionalLanguages(targetLanguages, regionalFallback) *)

RlCodes == {<<"pt">>, <<"pt", "BR">>, <<"zh">>, <<"zh", "CN">>,
            <<"zh", "Hant", "TW">>, <<"es">>}
RlInputs == UNION {[1..n -> RlCodes] : n \in 1..MaxInput}

\* RlStep with the map entry recorded only when the base language is
\* synthesized
RlStepMapsSynthesizedOnly ==
  /\ rlPc = "loop" /\ rlIdx <= Len(rlInput)
  /\ LET lang == rlInput[rlIdx]
         regional == IsRegional(lang) /\ rlFlag
         baseLang == BaseOf(lang)
         addBase == /\ regional
                    /\ baseLang \notin baseLanguagesAdded
                    /\ ~InSeq(baseLang, rlInput)
         withBase == IF addBase THEN Append(processedTargets, baseLang)
                     ELSE processedTargets
     IN /\ rlMap' = IF regional /\ ~InSeq(baseLang, rlInput)
                    THEN MapPut(rlMap, lang, baseLang) ELSE rlMap
        /\ baseLanguagesAdded' = IF addBase
                                 THEN baseLanguagesAdded \cup {baseLang}
                                 ELSE baseLanguagesAdded
        /\ processedTargets' = IF ~InSeq(lang, withBase)
                               THEN Append(withBase, lang) ELSE withBase
  /\ rlIdx' = rlIdx + 1
  /\ UNCHANGED <<rlInput, rlFlag, rlPc, rlCall, rlFirst, notRlVars>>

\* RlStep with the code pushed whether or not processedTargets has it
RlStepPushesAlways ==
  /\ rlPc = "loop" /\ rlIdx <= Len(rlInput)
  /\ LET lang == rlInput[rlIdx]
         regional == IsRegional(lang) /\ rlFlag
         baseLang == BaseOf(lang)
         addBase == /\ regional
                    /\ baseLang \notin baseLanguagesAdded
                    /\ ~InSeq(baseLang, rlInput)
         withBase == IF addBase THEN Append(processedTargets, baseLang)
                     ELSE processedTargets
     IN /\ rlMap' = IF regional THEN MapPut(rlMap, lang, baseLang) ELSE rlMap
        /\ baseLanguagesAdded' = IF addBase
                                 THEN baseLanguagesAdded \cup {baseLang}
                                 ELSE baseLanguagesAdded
        /\ processedTargets' = Append(withBase, lang)
  /\ rlIdx' = rlIdx + 1
  /\ UNCHANGED <<rlInput, rlFlag, rlPc, rlCall, rlFirst, notRlVars>>

\* RlStep with the base language pushed for every regional code
RlStepAlwaysAddsBase ==
  /\ rlPc = "loop" /\ rlIdx <= Len(rlInput)
  /\ LET lang == rlInput[rlIdx]
         regional == IsRegional(lang) /\ rlFlag
         baseLang == BaseOf(lang)
         addBase == regional
         withBase == IF addBase THEN Append(processedTargets, baseLang)
                     ELSE processedTargets
     IN /\ rlMap' = IF regional THEN MapPut(rlMap, lang, baseLang) ELSE rlMap
        /\ baseLanguagesAdded' = IF addBase
                                 THEN baseLanguagesAdded \cup {baseLang}
                                 ELSE baseLanguagesAdded
        /\ processedTargets' = IF ~InSeq(lang, withBase)
                               THEN Append(withBase, lang) ELSE withBase
  /\ rlIdx' = rlIdx + 1
  /\ UNCHANGED <<rlInput, rlFlag, rlPc, rlCall, rlFirst, notRlVars>>

\* RlStep with every code that holds '-' taken as regional, whatever the flag
RlStepIgnoresFlag ==
  /\ rlPc = "loop" /\ rlIdx <= Len(rlInput)
  /\ LET lang == rlInput[rlIdx]
         regional == IsRegional(lang)
         baseLang == BaseOf(lang)
         addBase == /\ regional
                    /\ baseLang \notin baseLanguagesAdded
                    /\ ~InSeq(baseLang, rlInput)
         withBase == IF addBase THEN Append(processedTargets, baseLang)
                     ELSE processedTargets
     IN /\ rlMap' = IF regional THEN MapPut(rlMap, lang, baseLang) ELSE rlMap
        /\ baseLanguagesAdded' = IF addBase
                                 THEN baseLanguagesAdded \cup {baseLang}
                                 ELSE baseLanguagesAdded
        /\ processedTargets' = IF ~InSeq(lang, withBase)
                               THEN Append(withBase, lang) ELSE withBase
  /\ rlIdx' = rlIdx + 1
  /\ UNCHANGED <<rlInput, rlFlag, rlPc, rlCall, rlFirst, notRlVars>>

\* RlStep with a synthesized base language pushed after the code it serves
RlStepBaseAfterCode ==
  /\ rlPc = "loop" /\ rlIdx <= Len(rlInput)
  /\ LET lang == rlInput[rlIdx]
         regional == IsRegional(lang) /\ rlFlag
         baseLang == BaseOf(lang)
         addBase == /\ regional
                    /\ baseLang \notin baseLanguagesAdded
                    /\ ~InSeq(baseLang, rlInput)
         withLang == IF ~InSeq(lang, processedTargets)
                     THEN Append(processedTargets, lang) ELSE processedTargets
     IN /\ rlMap' = IF regional THEN MapPut(rlMap, lang, baseLang) ELSE rlMap
        /\ baseLanguagesAdded' = IF addBase
                                 THEN baseLanguagesAdded \cup {baseLang}
                                 ELSE baseLanguagesAdded
        /\ processedTargets' = IF addBase THEN Append(withLang, baseLang)
                               ELSE withLang
  /\ rlIdx' = rlIdx + 1
  /\ UNCHANGED <<rlInput, rlFlag, rlPc, rlCall, rlFirst, notRlVars>>

\* one pass of: for (const lang of targetLanguages) { ... }
RlStep ==
  /\ rlPc = "loop" /\ rlIdx <= Len(rlInput)
  /\ LET lang == rlInput[rlIdx]
         regional == IsRegional(lang) /\ rlFlag
         baseLang == BaseOf(lang)
         addBase == /\ regional
                    /\ baseLang \notin baseLanguagesAdded
                    /\ ~InSeq(baseLang, rlInput)
         withBase == IF addBase THEN Append(processedTargets, baseLang)
                     ELSE processedTargets
     IN /\ rlMap' = IF regional THEN MapPut(rlMap, lang, baseLang) ELSE rlMap
        /\ baseLanguagesAdded' = IF addBase
                                 THEN baseLanguagesAdded \cup {baseLang}
                                 ELSE baseLanguagesAdded
        /\ processedTargets' = IF ~InSeq(lang, withBase)
                               THEN Append(withBase, lang) ELSE withBase
  /\ rlIdx' = rlIdx + 1
  /\ UNCHANGED <<rlInput, rlFlag, rlPc, rlCall, rlFirst, notRlVars>>

\* return { processedTargets, regionalMap }
RlReturn ==
  /\ rlPc = "loop" /\ rlIdx > Len(rlInput)
  /\ rlPc' = "done"
  /\ UNCHANGED <<rlInput, rlFlag, rlIdx, processedTargets, rlMap,
                 baseLanguagesAdded, rlCall, rlFirst, notRlVars>>

\* processRegionalLanguages again, on the processedTargets it returned
RlCallAgain ==
  /\ rlPc = "done" /\ rlCall = 1
  /\ rlFirst' = processedTargets
  /\ rlInput' = processedTargets
  /\ rlIdx' = 1
  /\ processedTargets' = <<>>
  /\ rlMap' = {}
  /\ baseLanguagesAdded' = {}
  /\ rlPc' = "loop"
  /\ rlCall' = 2
  /\ UNCHANGED <<rlFlag, notRlVars>>

ApplyIdle ==
  /\ heap = <<>> /\ heap0 = <<>> /\ heap1 = <<>>
  /\ result = [l \in Langs |-> Undefined]
  /\ result0 = [l \in Langs |-> Undefined]
  /\ result1 = [l \in Langs |-> Undefined]
  /\ attached = <<>> /\ attached1 = <<>>
  /\ sourceContent = Undefined /\ targetLanguages = <<>>
  /\ fallbackToSource = FALSE /\ regionalFallback = FALSE /\ regionalMap = {}
  /\ fallbackInfo = NoFallbackInfo
  /\ idx = 1 /\ pc = "idle" /\ call = 1
  /\ wrote = FALSE /\ last = NoStep

RlInit ==
  /\ rlInput \in RlInputs
  /\ rlFlag \in BOOLEAN
  /\ rlIdx = 1
  /\ processedTargets = <<>>
  /\ rlMap = {}
  /\ baseLanguagesAdded = {}
  /\ rlPc = "loop"
  /\ rlCall = 1 /\ rlFirst = <<>>
  /\ ApplyIdle
  /\ TreeIdle
  /\ KeyIdle
  /\ BuildIdle
  /\ UnitIdle

RlNext == RlStep \/ RlReturn \/ RlCallAgain

SpecRegional == RlInit /\ [][RlNext]_vars

(* C10: with regionalFallback on, the regionalMap that                     *)
(* processRegionalLanguages returns has as keys exactly the codes of the   *)
(* input list that contain '-', each mapped to what stands before its      *)
(* first '-', also when that base language is itself in the input list;    *)
(* a code without '-' is never a key.                                      *)
C10_RegionalMapKeys ==
  (rlPc = "done" /\ rlFlag) =>
    /\ rlMap = {<<rlInput[i], <<rlInput[i][1]>>>> :
                  i \in {j \in 1..Len(rlInput) : Len(rlInput[j]) > 1}}
    /\ \A e \in rlMap : Len(e[1]) > 1

\* the base language is in the input list, before one of its variants and
\* after another, and both variants are mapped to it
C10_Witness ==
  /\ rlPc = "done" /\ rlFlag
  /\ rlInput = << <<"zh", "CN">>, <<"zh">>, <<"zh", "Hant", "TW">> >>
  /\ rlMap = {<< <<"zh", "CN">>, <<"zh">> >>,
              << <<"zh", "Hant", "TW">>, <<"zh">> >>}

RECURSIVE Dedupe(_)
\* seq with every later repetition of an element removed
Dedupe(seq) ==
  IF seq = <<>> THEN <<>>
  ELSE LET front == Dedupe(SubSeq(seq, 1, Len(seq) - 1))
           x == seq[Len(seq)]
       IN IF InSeq(x, front) THEN front ELSE Append(front, x)

(* C11: for every input list and either flag value, processedTargets holds *)
(* no code more than once (at return, and at every point of the loop).     *)
C11_NoDuplicates ==
  \A i, j \in 1..Len(processedTargets) :
    processedTargets[i] = processedTargets[j] => i = j

\* a repeated code and two variants of one base that is not in the list
C11_Witness ==
  /\ rlPc = "done" /\ rlCall = 1 /\ rlFlag
  /\ rlInput = << <<"zh", "CN">>, <<"zh", "Hant", "TW">>, <<"zh", "CN">> >>
  /\ processedTargets = << <<"zh">>, <<"zh", "CN">>, <<"zh", "Hant", "TW">> >>

(* C12: processRegionalLanguages applied, with regionalFallback on, to the *)
(* processedTargets it returned gives the same processedTargets again:     *)
(* the same codes in the same order.                                       *)
C12_ExpansionIdempotent ==
  (rlPc = "done" /\ rlCall = 2 /\ rlFlag) => processedTargets = rlFirst

\* the first call synthesized two base languages
C12_Witness ==
  /\ rlPc = "done" /\ rlCall = 2 /\ rlFlag
  /\ rlFirst = << <<"pt">>, <<"pt", "BR">>, <<"zh">>, <<"zh", "CN">> >>
  /\ processedTargets = rlFirst

(* C13: with regionalFallback off, processedTargets is the input list with *)
(* later duplicates removed and first-seen order kept (no base language is *)
(* synthesized), and regionalMap is empty.                                 *)
C13_DisabledKeepsInput ==
  (rlPc = "done" /\ ~rlFlag) =>
    processedTargets = Dedupe(rlInput) /\ rlMap = {}

\* regional codes whose base is not in the list, one of them repeated
C13_Witness ==
  /\ rlPc = "done" /\ rlCall = 1 /\ ~rlFlag
  /\ rlInput = << <<"pt", "BR">>, <<"zh", "CN">>, <<"pt", "BR">> >>
  /\ processedTargets = << <<"pt", "BR">>, <<"zh", "CN">> >>

\* the codes of seq that are in the input list, in the order seq has them
FromInput(seq) ==
  LET Given(x) == InSeq(x, rlInput)
  IN SelectSeq(seq, Given)

\* the first code of the input list that holds '-' and has the base b
FirstVariant(b) ==
  LET i == CHOOSE i \in 1..Len(rlInput) :
             /\ IsRegional(rlInput[i]) /\ BaseOf(rlInput[i]) = b
             /\ \A j \in 1..(i - 1) :
                  ~(IsRegional(rlInput[j]) /\ BaseOf(rlInput[j]) = b)
  IN rlInput[i]

(* C25: with regionalFallback on, processedTargets holds every code of the *)
(* input list, the base of a code with '-' exactly when that base is not   *)
(* in the input list, and nothing else; the codes of the input list stand  *)
(* in their first-seen order, and a synthesized base stands immediately    *)
(* before the first code of the input list that has it as its base.        *)
C25_ExpansionContent ==
  (rlPc = "done" /\ rlCall = 1 /\ rlFlag) =>
    LET given == {rlInput[i] : i \in 1..Len(rlInput)}
        bases == {BaseOf(l) : l \in {c \in given : IsRegional(c)}}
        out == {processedTargets[i] : i \in 1..Len(processedTargets)}
    IN /\ out = given \cup (bases \ given)
       /\ FromInput(processedTargets) = Dedupe(rlInput)
       /\ \A i \in 1..Len(processedTargets) :
            processedTargets[i] \notin given =>
              /\ i < Len(processedTargets)
              /\ processedTargets[i + 1] = FirstVariant(processedTargets[i])

\* two variants of one base that is not in the list, then a plain code
C25_Witness ==
  /\ rlPc = "done" /\ rlCall = 1 /\ rlFlag
  /\ rlInput = << <<"zh", "CN">>, <<"zh", "Hant", "TW">>, <<"es">> >>
  /\ processedTargets =
       << <<"zh">>, <<"zh", "CN">>, <<"zh", "Hant", "TW">>, <<"es">> >>

----------------------------------------------------------------------------
(* findMissingKeys(source, translation) and setNestedValue(obj, path,      *)
(* value), each called on its own                                          *)

\* an array that holds a text and an empty string
SomeArray == ArrayLeaf(<< <<<<"0">>, Text("a")>>, <<<<"1">>, Leaf(EmptyString)>> >>)

\* the kinds of leaf value
DLeaves == {Text("Hello"), Leaf(EmptyString), Leaf(Null), Leaf(Zero),
            Leaf(False), ArrayLeaf(<<>>), SomeArray}

\* nested trees: one and two levels deep
DSubtrees ==
  {Tree(<<>>)}
  \cup {Tree(<< <<X, l>> >>) : l \in DLeaves}
  \cup {Tree(<< <<X, l>>, <<Y, Text("Why")>> >>) : l \in DLeaves}
  \cup {Tree(<< <<X, Tree(<< <<Y, l>> >>)>> >>) : l \in DLeaves}

\* the trees given as source, and as obj
DTrees ==
  {Tree(<<>>)}
  \cup {Tree(<< <<G, a>> >>) : a \in DLeaves}
  \cup {Tree(<< <<G, a>>, <<N, b>> >>) : a \in DLeaves, b \in DLeaves \cup DSubtrees}

\* the trees given as translation: those, and trees without the key g
DCands == DTrees \cup {Tree(<< <<N, b>> >>) : b \in DLeaves \cup DSubtrees}

\* the paths given to setNestedValue, each as path.split('.')
SetPaths == {<<"g">>, <<"f">>, <<"g", "x">>, <<"n", "x">>, <<"n", "y">>,
             <<"n", "x", "y">>, <<"f", "x", "y">>}

IsTree(p) == p.t = "object" /\ ~p.isArray

RECURSIVE LeafKeys(_)
\* the leaves of a tree as written, each as the sequence of keys leading to it
LeafKeys(p) ==
  IF IsTree(p)
  THEN UNION {{<<p.kv[j][1]>> \o q : q \in LeafKeys(p.kv[j][2])} :
                j \in 1..Len(p.kv)}
  ELSE {<<>>}

RECURSIVE Without(_, _)
\* a copy of the tree p with the key that ks leads to deleted
Without(p, ks) ==
  LET Other(e) == e[1] # Head(ks)
  IN IF Len(ks) = 1 THEN Tree(SelectSeq(p.kv, Other))
     ELSE Tree([j \in 1..Len(p.kv) |->
                  IF p.kv[j][1] = Head(ks)
                  THEN <<p.kv[j][1], Without(p.kv[j][2], Tail(ks))>>
                  ELSE p.kv[j]])

TreeInit ==
  /\ dOp \in {"self", "deleted", "any", "set"}
  /\ dSource \in IF dOp = "set" THEN {Absent} ELSE DTrees
  /\ dKey \in IF dOp = "deleted" THEN LeafKeys(dSource) ELSE {<<>>}
  /\ dCand \in CASE dOp = "self" -> {dSource}
                 [] dOp = "deleted" -> {Without(dSource, dKey)}
                 [] dOp = "any" -> DCands
                 [] OTHER -> DTrees
  /\ dPath \in IF dOp = "set" THEN SetPaths ELSE {<<>>}
  /\ dValue = IF dOp = "set" THEN Str(<<"New">>) ELSE Undefined
  /\ LET s0 == Store(<<>>, dSource)
         s1 == IF dOp = "self" THEN s0 ELSE Store(s0.h, dCand)
     IN /\ dHeap0 = s1.h /\ dHeap = s1.h
        /\ dSrc = s0.val /\ dObj = s1.val
  /\ dMissing = <<>>
  /\ dThrew = FALSE
  /\ dPc = "call"
  /\ ApplyIdle
  /\ RlIdle
  /\ KeyIdle
  /\ BuildIdle
  /\ UnitIdle

\* findMissingKeys(source, translation)
DiffCall ==
  /\ dPc = "call" /\ dOp # "set"
  /\ dMissing' = findMissingKeys(dHeap, dSrc, dObj, <<>>)
  /\ dPc' = "done"
  /\ UNCHANGED <<dOp, dSource, dCand, dKey, dPath, dValue, dHeap0, dHeap, dSrc,
                 dObj, dThrew, notTreeVars>>

\* setNestedValue(obj, path, value)
SetCall ==
  /\ dPc = "call" /\ dOp = "set"
  /\ LET s == setNestedValue(dHeap, dObj, dPath, dValue)
     IN dHeap' = s.h /\ dThrew' = s.threw
  /\ dPc' = "done"
  /\ UNCHANGED <<dOp, dSource, dCand, dKey, dPath, dValue, dHeap0, dSrc, dObj,
                 dMissing, notTreeVars>>

TreeNext == DiffCall \/ SetCall

SpecTree == TreeInit /\ [][TreeNext]_vars

RECURSIVE NoBlank(_)
\* no key of the tree, at any depth, holds null or the empty string
NoBlank(p) ==
  IF IsTree(p) THEN \A j \in 1..Len(p.kv) : NoBlank(p.kv[j][2])
  ELSE ~(p.t = "null" \/ (p.t = "string" /\ p.v = <<>>))

\* undefined, null or ''
Blank(x) == x = Undefined \/ x = Null \/ x = EmptyString

(* C14, as claimed: for every tree S, whose leaves may be any string, the  *)
(* empty string included, null, numbers, booleans or arrays,               *)
(* findMissingKeys(S, S) is the empty list.                                *)
C14_SelfNothingMissing ==
  (dPc = "done" /\ dOp = "self") => dMissing = <<>>

(* C14, amended: findMissingKeys(S, S) is the empty list for every tree S  *)
(* in which no key holds null or the empty string.                         *)
C14_SelfNothingMissingNoBlank ==
  (dPc = "done" /\ dOp = "self" /\ NoBlank(dSource)) => dMissing = <<>>

\* a tree with a number, and a nested tree that holds an array and a text
C14_Witness ==
  /\ dPc = "done" /\ dOp = "self"
  /\ dSource = Tree(<< <<G, Leaf(Zero)>>,
                       <<N, Tree(<< <<X, SomeArray>>, <<Y, Text("Why")>> >>)>> >>)
  /\ dMissing = <<>>

(* C15, as claimed: for every tree S and every leaf key k of S, at any     *)
(* depth, with C a deep copy of S from which only k is deleted,            *)
(* findMissingKeys(S, C) is the list of one element, the dotted path of k. *)
C15_DeletedLeafReported ==
  (dPc = "done" /\ dOp = "deleted") => dMissing = <<Dotted(dKey)>>

(* C15, amended: the same for every tree S in which no key other than k    *)
(* holds null or the empty string.                                         *)
C15_DeletedLeafReportedNoBlank ==
  (dPc = "done" /\ dOp = "deleted" /\ NoBlank(dCand)) =>
    dMissing = <<Dotted(dKey)>>

\* the only key of a tree two levels down was deleted, next to a boolean
C15_Witness ==
  /\ dPc = "done" /\ dOp = "deleted"
  /\ dKey = <<N, X, Y>>
  /\ dCand = Tree(<< <<G, Leaf(False)>>, <<N, Tree(<< <<X, Tree(<<>>)>> >>)>> >>)
  /\ dMissing = << <<"n", "x", "y">> >>

(* C16: findMissingKeys reports a key of the source exactly when the value *)
(* of the candidate at that key is undefined, null or the empty string: at *)
(* the top level, and under a key where the source holds a tree and the    *)
(* candidate an object.  A candidate value of 0, false or an empty array   *)
(* at a leaf key is never reported.                                        *)
C16_MissingIffBlank ==
  (dPc = "done" /\ dOp = "any") =>
    \A i \in 1..Len(ObjectKeys(dHeap, dSrc)) :
      LET k == ObjectKeys(dHeap, dSrc)[i]
          sv == Get(dHeap, dSrc, k)
          cv == Get(dHeap, dObj, k)
      IN /\ InSeq(k, dMissing) <=> Blank(cv)
         /\ cv \in {Zero, False} => ~InSeq(k, dMissing)
         /\ (IsArray(dHeap, cv) /\ ~IsObject(sv)) =>
              \A j \in 1..Len(dMissing) : ~IsPrefix(k, dMissing[j])
         /\ (IsObject(sv) /\ ~IsArray(dHeap, sv) /\ IsObject(cv)) =>
              \A j \in 1..Len(ObjectKeys(dHeap, sv)) :
                LET k2 == ObjectKeys(dHeap, sv)[j]
                    cv2 == Get(dHeap, cv, k2)
                IN /\ InSeq(k \o k2, dMissing) <=> Blank(cv2)
                   /\ cv2 \in {Zero, False} => ~InSeq(k \o k2, dMissing)

\* the candidate holds 0 where the source has a text, and an empty array
\* under a nested key: nothing is reported
C16_Witness ==
  /\ dPc = "done" /\ dOp = "any"
  /\ dSource = Tree(<< <<G, Text("Hello")>>,
                       <<N, Tree(<< <<X, Text("Hello")>> >>)>> >>)
  /\ dCand = Tree(<< <<G, Leaf(Zero)>>,
                     <<N, Tree(<< <<X, ArrayLeaf(<<>>)>> >>)>> >>)
  /\ dMissing = <<>>

\* the keys that the first n segments of a split path lead to
PathKeys(path, n) == [i \in 1..n |-> <<path[i]>>]

(* C17: setNestedValue(obj, path, value) completes without raising; after  *)
(* it every intermediate segment of the path holds a nested tree (created  *)
(* when absent, replacing a string, number, boolean, null or array), the   *)
(* final segment holds value, and every key of obj that is not on the path *)
(* holds what it held.                                                     *)
C17_SetNestedValue ==
  (dPc = "done" /\ dOp = "set") =>
    /\ ~dThrew
    /\ ValueAt(dHeap, dObj, PathKeys(dPath, Len(dPath))) = dValue
    /\ \A n \in 1..(Len(dPath) - 1) :
         LET at == ValueAt(dHeap, dObj, PathKeys(dPath, n))
         IN IsObject(at) /\ ~IsArray(dHeap, at)
    /\ \A ks \in KeyPaths(dHeap0, dObj) :
         (~IsPrefix(ks, PathKeys(dPath, Len(dPath)))
          /\ ~IsPrefix(PathKeys(dPath, Len(dPath)), ks)) =>
           Deep(dHeap, ValueAt(dHeap, dObj, ks))
             = Deep(dHeap0, ValueAt(dHeap0, dObj, ks))

\* some reported path lies under the top-level key k
ReportedBelow(k) ==
  \E j \in 1..Len(dMissing) : IsPrefix(k, dMissing[j]) /\ dMissing[j] # k

(* C26: findMissingKeys descends into a key only when the source value at  *)
(* that key is a tree (an object that is no array) and the candidate value *)
(* at that key is an object that is no array: when the candidate value is  *)
(* an array, or no object, no path below the key is reported, and no path  *)
(* below a key whose source value is an array is reported.                 *)
C26_DescendsOnlyIntoTrees ==
  (dPc = "done" /\ dOp = "any") =>
    \A i \in 1..Len(ObjectKeys(dHeap, dSrc)) :
      LET k == ObjectKeys(dHeap, dSrc)[i]
          sv == Get(dHeap, dSrc, k)
          cv == Get(dHeap, dObj, k)
      IN /\ ReportedBelow(k) =>
              /\ IsObject(sv) /\ ~IsArray(dHeap, sv)
              /\ IsObject(cv) /\ ~IsArray(dHeap, cv)
         /\ (IsArray(dHeap, cv) \/ ~IsObject(cv)) => ~ReportedBelow(k)
         /\ IsArray(dHeap, sv) => ~ReportedBelow(k)

RECURSIVE PreOrder(_, _, _, _)
\* the paths of the nodes of tree x from its j-th key on, a key before the
\* keys under it, the keys of a level in the order Object.keys gives
PreOrder(h, x, prefix, j) ==
  IF j > Len(ObjectKeys(h, x)) THEN <<>>
  ELSE LET key == ObjectKeys(h, x)[j]
           val == Get(h, x, key)
           under == IF IsObject(val) /\ ~IsArray(h, val)
                    THEN PreOrder(h, val, prefix \o key, 1) ELSE <<>>
       IN <<prefix \o key>> \o under \o PreOrder(h, x, prefix, j + 1)

----------------------------------------------------------------------------
(* buildStart: the cache key.  Strings are sequences of characters here.   *)

\* longest language code, and longest targetLanguages list, of a request
MaxCodeLen == 3
MaxKeyTargets == 2

\* the characters of a language code
KeyChars == {"e", ","}
KeyCodes == UNION {[1..n -> KeyChars] : n \in 1..MaxCodeLen}
KeyTargetLists == UNION {[1..n -> KeyCodes] : n \in 1..MaxKeyTargets}
\* the content of a source file: "{}", and "{}" followed by a line feed
KeyContents == {<<"{", "}">>, <<"{", "}", "\n">>}

RECURSIVE Join(_)
\* targetLanguages.join(',')
Join(list) ==
  IF list = <<>> THEN <<>>
  ELSE IF Len(list) = 1 THEN list[1]
  ELSE list[1] \o <<",">> \o Join(Tail(list))

\* the string given to update(): sourceContent + targetLanguages.join(',')
DigestInput(content, targets) == content \o Join(targets)

KeyInit ==
  /\ kContentA \in KeyContents /\ kTargetsA \in KeyTargetLists
  /\ kContentB \in KeyContents /\ kTargetsB \in KeyTargetLists
  /\ kInputA = <<>> /\ kInputB = <<>>
  /\ kPc = "call"
  /\ ApplyIdle
  /\ RlIdle
  /\ TreeIdle
  /\ BuildIdle
  /\ UnitIdle

\* crypto.createHash('md5').update(...), for each of the two requests
KeyCall ==
  /\ kPc = "call"
  /\ kInputA' = DigestInput(kContentA, kTargetsA)
  /\ kInputB' = DigestInput(kContentB, kTargetsB)
  /\ kPc' = "done"
  /\ UNCHANGED <<kContentA, kTargetsA, kContentB, kTargetsB, notKeyVars>>

KeyNext == KeyCall

SpecKey == KeyInit /\ [][KeyNext]_vars

(* C18: two requests with the same content and the same target sequence    *)
(* feed the same input to the digest, and two requests that differ in the  *)
(* content or in the target sequence (membership or order) feed different  *)
(* inputs: content + targets.join(',') maps no two distinct (content,      *)
(* targets) pairs to the same digest input.                                *)
C18_DigestInputInjective ==
  kPc = "done" =>
    (kInputA = kInputB
       <=> (kContentA = kContentB /\ kTargetsA = kTargetsB))

----------------------------------------------------------------------------
(* buildStart: the loop over the source files, run after run.  What a      *)
(* translation set holds is kept as a token naming where it came from.     *)

\* number of source files, of runs of buildStart, and of contents of a file
MaxFiles == 2
MaxRuns == 2
MaxVersion == 2

Files == 1..MaxFiles
\* a cache file is named after the file and the hash of its content
CacheKeys == Files \X (1..MaxVersion)
CacheKey(f) == <<f, bVersion[f]>>

NoEntry == [kind |-> "none", val |-> <<>>]
\* a cache file that JSON.parse rejects
CorruptEntry == [kind |-> "corrupt", val |-> <<>>]
\* a cache file written by line 151
SetEntry(v) == [kind |-> "set", val |-> v]

\* applyFallbacks(await translateJSON(...)), for the file in hand
Reconciled(f) == <<"reconciled", bVersion[f], bRun>>
\* { [lang]: { ...sourceJson } } for every target language
SourceForAll(f) == <<"source", bVersion[f]>>

BuildInit ==
  /\ bCache \in BOOLEAN /\ bFts \in BOOLEAN
  /\ bRun = 1 /\ bFile = 1 /\ bPc = "file"
  /\ bParsable \in [Files -> BOOLEAN]
  /\ bVersion = [f \in Files |-> 1]
  /\ bStore \in {st \in [CacheKeys -> {NoEntry, CorruptEntry}] :
                   \A k \in CacheKeys : k[2] # 1 => st[k] = NoEntry}
  /\ bTranslations = <<>>
  /\ bFound = [f \in Files |-> "unseen"]
  /\ bOutcome = [f \in Files |-> "none"]
  /\ bCalls = [f \in Files |-> 0]
  /\ bOut = [f \in Files |-> <<>>]
  /\ bSeen = {}
  /\ bPrev = [f \in Files |-> FALSE]
  /\ ApplyIdle
  /\ RlIdle
  /\ TreeIdle
  /\ KeyIdle
  /\ UnitIdle

\* BParseError that leaves the loop over the files
BParseErrorReturns ==
  /\ bPc = "file" /\ bFile <= MaxFiles
  /\ ~bParsable[bFile]
  /\ bFile' = MaxFiles + 1
  /\ bSeen' = bSeen \cup {bFile}
  /\ UNCHANGED <<bCache, bFts, bRun, bPc, bParsable, bVersion, bStore,
                 bTranslations, bFound, bOutcome, bCalls, bOut, bPrev,
                 notBuildVars>>

\* JSON.parse(sourceContent) throws: continue
BParseError ==
  /\ bPc = "file" /\ bFile <= MaxFiles
  /\ ~bParsable[bFile]
  /\ bFile' = bFile + 1
  /\ bSeen' = bSeen \cup {bFile}
  /\ UNCHANGED <<bCache, bFts, bRun, bPc, bParsable, bVersion, bStore,
                 bTranslations, bFound, bOutcome, bCalls, bOut, bPrev,
                 notBuildVars>>

\* JSON.parse(sourceContent) succeeds; the hash and the cache file name
BParse ==
  /\ bPc = "file" /\ bFile <= MaxFiles
  /\ bParsable[bFile]
  /\ bPc' = "lookup"
  /\ bSeen' = bSeen \cup {bFile}
  /\ UNCHANGED <<bCache, bFts, bRun, bFile, bParsable, bVersion, bStore,
                 bTranslations, bFound, bOutcome, bCalls, bOut, bPrev,
                 notBuildVars>>

\* BLookup that takes no translations from the cache
BLookupIgnoresCache ==
  /\ bPc = "lookup"
  /\ LET e == bStore[CacheKey(bFile)]
     IN /\ bTranslations' = <<>>
        /\ bFound' = [bFound EXCEPT ![bFile] = IF bCache THEN e.kind ELSE "off"]
        /\ bPc' = "translate"
  /\ UNCHANGED <<bCache, bFts, bRun, bFile, bParsable, bVersion, bStore,
                 bOutcome, bCalls, bOut, bSeen, bPrev,
                 notBuildVars>>

\* BLookup with the cache file parsed outside the try block
BLookupRaises ==
  /\ bPc = "lookup"
  /\ LET e == bStore[CacheKey(bFile)]
         hit == bCache /\ e.kind = "set"
     IN /\ bTranslations' = IF hit THEN e.val ELSE <<>>
        /\ bFound' = [bFound EXCEPT ![bFile] = IF bCache THEN e.kind ELSE "off"]
        /\ bPc' = IF bCache /\ e.kind = "corrupt" THEN "raised"
                  ELSE IF hit THEN "write" ELSE "translate"
  /\ UNCHANGED <<bCache, bFts, bRun, bFile, bParsable, bVersion, bStore,
                 bOutcome, bCalls, bOut, bSeen, bPrev,
                 notBuildVars>>

\* translations = null; if the cache file exists, parse it; on a parse
\* error, null again
BLookup ==
  /\ bPc = "lookup"
  /\ LET e == bStore[CacheKey(bFile)]
         hit == bCache /\ e.kind = "set"
     IN /\ bTranslations' = IF hit THEN e.val ELSE <<>>
        /\ bFound' = [bFound EXCEPT ![bFile] = IF bCache THEN e.kind ELSE "off"]
        /\ bPc' = IF hit THEN "write" ELSE "translate"
  /\ UNCHANGED <<bCache, bFts, bRun, bFile, bParsable, bVersion, bStore,
                 bOutcome, bCalls, bOut, bSeen, bPrev,
                 notBuildVars>>

\* translateJSON resolves: reconcile, save to the cache
BTranslateOk ==
  /\ bPc = "translate"
  /\ bCalls' = [bCalls EXCEPT ![bFile] = @ + 1]
  /\ bOutcome' = [bOutcome EXCEPT ![bFile] = "ok"]
  /\ bTranslations' = Reconciled(bFile)
  /\ bStore' = IF bCache
               THEN [bStore EXCEPT ![CacheKey(bFile)] = SetEntry(Reconciled(bFile))]
               ELSE bStore
  /\ bPc' = "write"
  /\ UNCHANGED <<bCache, bFts, bRun, bFile, bParsable, bVersion, bFound, bOut,
                 bSeen, bPrev,
                 notBuildVars>>

\* BTranslateFail that saves the set made of the source to the cache
BTranslateFailCaches ==
  /\ bPc = "translate"
  /\ bCalls' = [bCalls EXCEPT ![bFile] = @ + 1]
  /\ bOutcome' = [bOutcome EXCEPT ![bFile] = "fail"]
  /\ bTranslations' = IF bFts THEN SourceForAll(bFile) ELSE <<>>
  /\ bStore' = IF bFts /\ bCache
               THEN [bStore EXCEPT ![CacheKey(bFile)] = SetEntry(SourceForAll(bFile))]
               ELSE bStore
  /\ bPc' = IF bFts THEN "write" ELSE "file"
  /\ bFile' = IF bFts THEN bFile ELSE bFile + 1
  /\ UNCHANGED <<bCache, bFts, bRun, bParsable, bVersion, bFound, bOut,
                 bSeen, bPrev, notBuildVars>>

\* translateJSON rejects: the source for every language, or continue
BTranslateFail ==
  /\ bPc = "translate"
  /\ bCalls' = [bCalls EXCEPT ![bFile] = @ + 1]
  /\ bOutcome' = [bOutcome EXCEPT ![bFile] = "fail"]
  /\ bTranslations' = IF bFts THEN SourceForAll(bFile) ELSE <<>>
  /\ bPc' = IF bFts THEN "write" ELSE "file"
  /\ bFile' = IF bFts THEN bFile ELSE bFile + 1
  /\ UNCHANGED <<bCache, bFts, bRun, bParsable, bVersion, bStore, bFound, bOut,
                 bSeen, bPrev,
                 notBuildVars>>

\* translateJSON resolves and applyFallbacks throws (a TypeError of
\* findMissingKeys or setNestedValue, reached with fallbackToSource on): the
\* cache is not written, and the catch block takes the source for every
\* language
BReconcileThrows ==
  /\ bPc = "translate" /\ bFts
  /\ bCalls' = [bCalls EXCEPT ![bFile] = @ + 1]
  /\ bOutcome' = [bOutcome EXCEPT ![bFile] = "threw"]
  /\ bTranslations' = SourceForAll(bFile)
  /\ bPc' = "write"
  /\ UNCHANGED <<bCache, bFts, bRun, bFile, bParsable, bVersion, bStore, bFound,
                 bOut, bSeen, bPrev, notBuildVars>>

\* write the translated files
BWrite ==
  /\ bPc = "write"
  /\ bOut' = [bOut EXCEPT ![bFile] = bTranslations]
  /\ bFile' = bFile + 1
  /\ bPc' = "file"
  /\ UNCHANGED <<bCache, bFts, bRun, bParsable, bVersion, bStore,
                 bTranslations, bFound, bOutcome, bCalls, bSeen, bPrev,
                 notBuildVars>>

\* the loop over the files is through
BEnd ==
  /\ bPc = "file" /\ bFile > MaxFiles
  /\ bPc' = "end"
  /\ UNCHANGED <<bCache, bFts, bRun, bFile, bParsable, bVersion, bStore,
                 bTranslations, bFound, bOutcome, bCalls, bOut, bSeen, bPrev,
                 notBuildVars>>

\* the next run of buildStart; before it nothing changed, or a source file
\* was edited, or a cache file was damaged
BNextRun ==
  /\ bPc = "end" /\ bRun < MaxRuns
  /\ \/ UNCHANGED <<bVersion, bStore>>
     \/ \E f \in Files :
          /\ bVersion[f] < MaxVersion
          /\ bVersion' = [bVersion EXCEPT ![f] = @ + 1]
          /\ UNCHANGED bStore
     \/ \E k \in CacheKeys :
          /\ bStore[k].kind = "set"
          /\ bStore' = [bStore EXCEPT ![k] = CorruptEntry]
          /\ UNCHANGED bVersion
  /\ bRun' = bRun + 1
  /\ bFile' = 1
  /\ bPc' = "file"
  /\ bTranslations' = <<>>
  /\ bFound' = [f \in Files |-> "unseen"]
  /\ bOutcome' = [f \in Files |-> "none"]
  /\ bCalls' = [f \in Files |-> 0]
  /\ bSeen' = {}
  /\ bPrev' = [f \in Files |->
                 bOutcome[f] \in {"fail", "threw"} /\ bVersion'[f] = bVersion[f]]
  /\ UNCHANGED <<bCache, bFts, bParsable, bOut, notBuildVars>>

BuildNext ==
  \/ BParseError
  \/ BParse
  \/ BLookup
  \/ BTranslateOk
  \/ BTranslateFail
  \/ BReconcileThrows
  \/ BWrite
  \/ BEnd
  \/ BNextRun

SpecBuild == BuildInit /\ [][BuildNext]_vars

\* one run of buildStart, on a cache directory that holds, for each file,
\* nothing, a damaged entry or the entry an earlier run wrote
BuildInitOneRun ==
  /\ bCache \in BOOLEAN /\ bFts \in BOOLEAN
  /\ bRun = 1 /\ bFile = 1 /\ bPc = "file"
  /\ bParsable \in [Files -> BOOLEAN]
  /\ bVersion = [f \in Files |-> 1]
  /\ bStore \in {st \in [CacheKeys -> {NoEntry, CorruptEntry,
                                        SetEntry(<<"reconciled", 1, 0>>)}] :
                   \A k \in CacheKeys : k[2] # 1 => st[k] = NoEntry}
  /\ bTranslations = <<>>
  /\ bFound = [f \in Files |-> "unseen"]
  /\ bOutcome = [f \in Files |-> "none"]
  /\ bCalls = [f \in Files |-> 0]
  /\ bOut = [f \in Files |-> <<>>]
  /\ bSeen = {}
  /\ bPrev = [f \in Files |-> FALSE]
  /\ ApplyIdle
  /\ RlIdle
  /\ TreeIdle
  /\ KeyIdle
  /\ UnitIdle

\* the steps of a run
BuildRun ==
  \/ BParseError
  \/ BParse
  \/ BLookup
  \/ BTranslateOk
  \/ BTranslateFail
  \/ BReconcileThrows
  \/ BWrite
  \/ BEnd

\* the run goes on: each synchronous step is taken, and every call of
\* translateJSON resolves or rejects
SpecBuildFair == BuildInitOneRun /\ [][BuildRun]_vars /\ WF_vars(BuildRun)

(* C19: in a run of buildStart translateJSON is called at most once for a  *)
(* source file, and only on a cache miss: when caching is on and a cache   *)
(* entry that parses exists for the file's key, the provider is not called *)
(* for the file and its output is written from the cached set.             *)
C19_ProviderOnlyOnMiss ==
  bPc # "idle" =>
    \A f \in Files :
      /\ bCalls[f] <= 1
      /\ bCalls[f] = 1 => bFound[f] \in {"off", "none", "corrupt"}
      /\ bFound[f] = "set" =>
           /\ bCache /\ bCalls[f] = 0
           /\ f < bFile => bOut[f] = bStore[CacheKey(f)].val

\* second run: one file is served from what the first run cached, the
\* other, edited since, is translated again
C19_Witness ==
  /\ bPc = "end" /\ bRun = 2 /\ bCache
  /\ \E f \in Files :
       /\ bFound[f] = "set" /\ bCalls[f] = 0
       /\ bOut[f] = <<"reconciled", 1, 1>>
  /\ \E g \in Files :
       /\ bVersion[g] = 2 /\ bCalls[g] = 1 /\ bOut[g] = <<"reconciled", 2, 2>>

(* C20: a cache entry that cannot be parsed is treated as a cache miss:    *)
(* buildStart does not raise; it calls the provider for the file, once;    *)
(* when the provider answers, the reconciled result replaces the cache     *)
(* entry and is written to the output files; when it fails the source is   *)
(* written if fallbackToSource is on: all as when no cache file exists.    *)
C20_CorruptLikeMiss ==
  bPc # "idle" =>
    /\ bPc # "raised"
    /\ \A f \in Files :
         (f < bFile /\ bFound[f] \in {"corrupt", "none"}) =>
           /\ bCalls[f] = 1
           /\ bOutcome[f] = "ok" =>
                /\ bStore[CacheKey(f)] = SetEntry(Reconciled(f))
                /\ bOut[f] = Reconciled(f)
           /\ bOutcome[f] = "fail" =>
                /\ bStore[CacheKey(f)].kind = bFound[f]
                /\ bFts => bOut[f] = SourceForAll(f)

\* second run: the entry the first run wrote was damaged, the provider was
\* called again and the entry and the output are those of the second run
C20_Witness ==
  /\ bPc = "end" /\ bRun = 2
  /\ \E f \in Files :
       /\ bFound[f] = "corrupt" /\ bCalls[f] = 1 /\ bOutcome[f] = "ok"
       /\ bVersion[f] = 1
       /\ bStore[CacheKey(f)] = SetEntry(<<"reconciled", 1, 2>>)
       /\ bOut[f] = <<"reconciled", 1, 2>>

(* C23: no partial failure aborts buildStart.  A source file that cannot  *)
(* be parsed, a provider call that fails, a provider response that        *)
(* applyFallbacks has to complete (or cannot: it throws), and a cache      *)
(* entry that cannot be parsed never raise out of buildStart; and, every   *)
(* provider call resolving or rejecting, the run reaches its end with      *)
(* every source file taken in hand, every parsable one looked up in the    *)
(* cache and, on a miss, given to the provider.                            *)
C23_NeverAborts ==
  /\ [](bPc # "raised")
  /\ <>(/\ bPc = "end" /\ bSeen = Files
        /\ \A f \in Files :
             bParsable[f] =>
               /\ bFound[f] # "unseen"
               /\ bFound[f] # "set" => bCalls[f] = 1)

\* a run is through in which the first file could not be parsed and the
\* second met a damaged cache entry and a provider failure
C23_Witness ==
  /\ bPc = "end" /\ bSeen = Files
  /\ ~bParsable[1]
  /\ bFound[MaxFiles] = "corrupt" /\ bOutcome[MaxFiles] = "fail"

(* C30: a cache entry is written only after the provider call for the      *)
(* file succeeded and applyFallbacks returned: the cache never holds the   *)
(* set made of the source; when the provider call fails or applyFallbacks  *)
(* throws, the cache has no entry for the file afterwards, and a later run *)
(* on the same content calls the provider again.                           *)
C30_CacheOnlyAfterSuccess ==
  bPc # "idle" =>
    /\ \A k \in CacheKeys :
         bStore[k].kind = "set" =>
           bStore[k].val[1] = "reconciled" /\ bStore[k].val[2] = k[2]
    /\ \A f \in Files :
         /\ bOutcome[f] \in {"fail", "threw"} => bStore[CacheKey(f)].kind # "set"
         /\ (f < bFile /\ bParsable[f] /\ bPrev[f]) =>
              bFound[f] # "set" /\ bCalls[f] = 1

\* second run, caching on: the provider failed for a file in the first run
\* and the source was written; the file is unchanged, nothing is in the
\* cache for it and the provider is called again
C30_Witness ==
  /\ bPc = "end" /\ bRun = 2 /\ bCache /\ bFts
  /\ \E f \in Files :
       /\ bPrev[f] /\ bVersion[f] = 1
       /\ bFound[f] = "none" /\ bCalls[f] = 1 /\ bOutcome[f] = "ok"
       /\ bOut[f] = <<"reconciled", 1, 2>>

----------------------------------------------------------------------------
(* buildStart, the body of the loop for one source file, with the cache    *)
(* off: JSON.parse, processRegionalLanguages, translateJSON,               *)
(* applyFallbacks, the catch block, and the loop that writes the output    *)
(* files.  `translations` is held in heap, result and attached.            *)

\* a file content JSON.parse rejects
Unparsable == [t |-> "unparsable", v |-> <<>>, isArray |-> FALSE, kv |-> <<>>]
\* the file contents  "a"  and  ["a"]
SrcString == Leaf(Str(<<"a">>))
SrcArray  == ArrayLeaf(<< <<IndexKey(1), Text("a")>> >>)
\* file contents that parse to something that is not a tree
NonTrees == {Leaf(Null), Leaf(Zero), SrcString, SrcArray}
UnitContents == {Unparsable, SrcEmpty, SrcFlat, SrcNested} \cup NonTrees

RECURSIVE Stringify(_, _)
\* JSON.stringify(x), read back as a written-down tree: an object's
\* properties in insertion order, those holding undefined left out, an
\* array's undefined elements as null
Stringify(h, x) ==
  IF ~IsObject(x) THEN Leaf(x)
  ELSE LET o == h[x.a]
           kept == IF o.isArray THEN o.kv
                   ELSE SelectSeq(o.kv, LAMBDA e : e.val.t # "undefined")
       IN [t |-> "object", v |-> <<>>, isArray |-> o.isArray,
           kv |-> [j \in 1..Len(kept) |->
                    <<kept[j].k,
                      IF kept[j].val.t = "undefined" THEN Leaf(Null)
                      ELSE Stringify(h, kept[j].val)>>]]

UnitInit ==
  /\ uContent \in UnitContents
  /\ uPc = "parse" /\ uProvider = "none" /\ uOut = {}
  /\ targetLanguages \in TargetLists
  /\ fallbackToSource \in BOOLEAN
  /\ regionalFallback \in BOOLEAN
  /\ heap = <<>> /\ heap0 = <<>> /\ heap1 = <<>>
  /\ result = [l \in Langs |-> Undefined]
  /\ result0 = [l \in Langs |-> Undefined]
  /\ result1 = [l \in Langs |-> Undefined]
  /\ attached = <<>> /\ attached1 = <<>>
  /\ sourceContent = Undefined /\ regionalMap = {}
  /\ fallbackInfo = NoFallbackInfo
  /\ idx = 1 /\ pc = "idle" /\ call = 1
  /\ wrote = FALSE /\ last = NoStep
  /\ RlIdle
  /\ TreeIdle
  /\ KeyIdle
  /\ BuildIdle

\* JSON.parse throws: the error is logged and the loop goes on
UParseError ==
  /\ uPc = "parse" /\ uContent = Unparsable
  /\ uPc' = "end"
  /\ UNCHANGED <<uContent, uProvider, uOut, applyVars, rlVars, notUnitVars>>

\* sourceJson = JSON.parse(sourceContent); processRegionalLanguages is called
UParse ==
  /\ uPc = "parse" /\ uContent # Unparsable
  /\ LET s == Store(<<>>, uContent)
     IN /\ heap' = s.h
        /\ sourceContent' = s.val
  /\ rlInput' = targetLanguages
  /\ rlFlag' = regionalFallback
  /\ rlIdx' = 1
  /\ processedTargets' = <<>>
  /\ rlMap' = {}
  /\ baseLanguagesAdded' = {}
  /\ rlPc' = "loop"
  /\ uPc' = "expand"
  /\ UNCHANGED <<result, attached, targetLanguages, fallbackToSource,
                 regionalFallback, regionalMap, fallbackInfo, idx, pc, call,
                 heap0, result0, FirstCall, wrote, last, rlCall, rlFirst,
                 uContent, uProvider, uOut, notUnitVars>>

\* translateJSON resolves with some response; applyFallbacks is called on it
UTranslate ==
  /\ uPc = "expand" /\ rlPc = "done"
  /\ \E rpt \in Candidates(uContent, PT), rbr \in Candidates(uContent, PTBR) :
       LET s1 == Store(heap, rpt)
           s2 == Store(s1.h, rbr)
           res == [l \in Langs |-> IF l = PT THEN s1.val ELSE s2.val]
       IN /\ heap' = s2.h /\ heap0' = s2.h
          /\ result' = res /\ result0' = res
  /\ regionalMap' = rlMap
  /\ fallbackInfo' = NoFallbackInfo
  /\ idx' = 1 /\ pc' = "loop"
  /\ wrote' = FALSE /\ last' = NoStep
  /\ uProvider' = "ok"
  /\ uPc' = "reconcile"
  /\ UNCHANGED <<attached, sourceContent, targetLanguages, fallbackToSource,
                 regionalFallback, call, FirstCall, uContent, uOut, rlVars,
                 notUnitVars>>

\* translateJSON throws: the response is not ok, or fetch rejects
UTranslateThrows ==
  /\ uPc = "expand" /\ rlPc = "done"
  /\ uProvider' = "fail"
  /\ uPc' = "catch"
  /\ UNCHANGED <<uContent, uOut, applyVars, rlVars, notUnitVars>>

\* applyFallbacks returned: translations is what it returned
UReconciled ==
  /\ uPc = "reconcile" /\ pc = "done"
  /\ uPc' = "write"
  /\ UNCHANGED <<uContent, uProvider, uOut, applyVars, rlVars, notUnitVars>>

\* applyFallbacks threw: the catch block takes over
UReconcileThrew ==
  /\ uPc = "reconcile" /\ pc = "threw"
  /\ uPc' = "catch"
  /\ UNCHANGED <<uContent, uProvider, uOut, applyVars, rlVars, notUnitVars>>

\* SourceForEach that stops after the first language
SourceForFirst(h, res, j) ==
  LET h2 == Spread(h, sourceContent)
  IN [h |-> h2, res |-> [res EXCEPT ![targetLanguages[1]] = Ref(Len(h2))]]

RECURSIVE SourceForEach(_, _, _)
\* for (const lang of targetLanguages) translations[lang] = { ...sourceJson }
SourceForEach(h, res, j) ==
  IF j > Len(targetLanguages) THEN [h |-> h, res |-> res]
  ELSE LET h2 == Spread(h, sourceContent)
       IN SourceForEach(h2, [res EXCEPT ![targetLanguages[j]] = Ref(Len(h2))],
                        j + 1)

\* the catch block of the translation
UCatch ==
  /\ uPc = "catch"
  /\ IF fallbackToSource
     THEN LET s == SourceForEach(heap, [l \in Langs |-> Undefined], 1)
          IN /\ heap' = s.h
             /\ result' = s.res
             /\ attached' = <<>>
             /\ uPc' = "write"
     ELSE /\ uPc' = "end"
          /\ UNCHANGED <<heap, result, attached>>
  /\ UNCHANGED <<sourceContent, targetLanguages, fallbackToSource,
                 regionalFallback, regionalMap, fallbackInfo, idx, pc, call,
                 heap0, result0, FirstCall, wrote, last, uContent, uProvider,
                 uOut, rlVars, notUnitVars>>

\* UWrite looping over the keys of translations
UWriteEveryKey ==
  /\ uPc = "write"
  /\ uOut' = {<<langCode, Stringify(heap, Lookup(result, langCode))>> :
                langCode \in {l \in Langs : Truthy(Lookup(result, l))}}
             \cup {<<(<<"fallbackInfo">>), attached[j]>> : j \in 1..Len(attached)}
  /\ uPc' = "end"
  /\ UNCHANGED <<uContent, uProvider, applyVars, rlVars, notUnitVars>>

\* for (const langCode of targetLanguages): a file for each one that
\* translations holds something for
UWrite ==
  /\ uPc = "write"
  /\ uOut' = {<<langCode, Stringify(heap, Lookup(result, langCode))>> :
                langCode \in {l \in Targets : Truthy(Lookup(result, l))}}
  /\ uPc' = "end"
  /\ UNCHANGED <<uContent, uProvider, applyVars, rlVars, notUnitVars>>

UnitNext ==
  \/ UParseError
  \/ UParse
  \/ RlStep
  \/ RlReturn
  \/ UTranslate
  \/ UTranslateThrows
  \/ WholeRegional
  \/ WholeSource
  \/ WholeNone
  \/ PartialKeys
  \/ PartialSkip
  \/ Return
  \/ UReconciled
  \/ UReconcileThrew
  \/ UCatch
  \/ UWrite

SpecUnit == UnitInit /\ [][UnitNext]_vars

\* the content { ...sourceJson } is written as
SourceCopy ==
  LET h2 == Spread(heap, sourceContent) IN Stringify(h2, Ref(Len(h2)))

(* C24: a source file that parses to something that is not a key/value     *)
(* tree (null, a number, a string, an array) is refused once it is passed  *)
(* to applyFallbacks: the file's pass neither goes on to the writing loop  *)
(* nor ends normally, no tree is produced for a language and no output     *)
(* file is written.                                                        *)
C24_NonTreeSourceFailsFast ==
  (uContent \in NonTrees /\ uProvider = "ok") =>
    /\ uPc \notin {"write", "end"}
    /\ uOut = {}
    /\ \A l \in Targets : result[l] = result0[l]

\* the language codes that have an output file
Written == {e[1] : e \in uOut}

(* C21: an output file is written for language X only if X is in           *)
(* targetLanguages and translations holds something for X, and it holds    *)
(* what translations has for X; a base language that                       *)
(* processRegionalLanguages added for the provider request, and            *)
(* fallbackInfo, are never written.                                        *)
C21_OnlyRequestedWithEntry ==
  /\ \A e \in uOut :
       /\ InTargets(e[1])
       /\ Truthy(Lookup(result, e[1]))
       /\ e[2] = Stringify(heap, Lookup(result, e[1]))
  /\ \A l \in Langs :
       (InSeq(l, processedTargets) /\ ~InTargets(l)) => l \notin Written
  /\ <<"fallbackInfo">> \notin Written
  /\ uPc = "end" => \A l \in Targets : ~Truthy(result[l]) => l \notin Written

C21_Witness ==
  /\ uPc = "end" /\ uProvider = "ok"
  /\ targetLanguages = <<PTBR>> /\ processedTargets = <<PT, PTBR>>
  /\ Truthy(result[PT])
  /\ attached # <<>>
  /\ Written = {PTBR}

\* what the catch block of the translation has written when the loop ends
FailureOutput ==
  IF fallbackToSource THEN {<<l, SourceCopy>> : l \in Targets} ELSE {}

\* the provider's response has nothing for any language: no entry, or, with
\* fallbackToSource on, an entry without keys
NoEntries ==
  \A l \in Langs :
    IF fallbackToSource THEN WholeMissing(heap0, result0[l])
    ELSE result0[l] = Undefined

\* the provider's response has nothing, or nothing but an entry without
\* keys, for every language of targetLanguages
EmptyRequested == \A l \in Targets : WholeMissing(heap0, result0[l])

(* C22, as stated: a failure of translateJSON leaves the output files that *)
(* applyFallbacks leaves for a response in which every language of         *)
(* targetLanguages is empty: the source content for each of them with      *)
(* fallbackToSource on, no file with it off.                               *)
C22_FailureLikeEmpty ==
  (uPc = "end" /\ uContent # Unparsable) =>
    /\ uProvider = "fail" => uOut = FailureOutput
    /\ (uProvider = "ok" /\ EmptyRequested) => uOut = FailureOutput

(* C22, amended: a failure of translateJSON leaves the output files that   *)
(* applyFallbacks leaves for a response with no entry for any language,    *)
(* requested or added as a base (with fallbackToSource on, entries without *)
(* keys count as no entry): the source content for each language of        *)
(* targetLanguages with fallbackToSource on, no file with it off.          *)
C22_FailureLikeNoEntries ==
  (uPc = "end" /\ uContent # Unparsable) =>
    /\ uProvider = "fail" => uOut = FailureOutput
    /\ (uProvider = "ok" /\ NoEntries) => uOut = FailureOutput

C22_Witness ==
  /\ uPc = "end" /\ uProvider = "fail"
  /\ uContent = SrcNested
  /\ fallbackToSource
  /\ Targets = Langs
  /\ uOut = {<<PT, SrcNested>>, <<PTBR, SrcNested>>}

====
